---- MODULE Spec2Model ----
(***************************************************************************)
(* Multi-clock temporal analytics core of the home-automation dashboard:   *)
(* clock mappers, the holding-interval splitter, the dense-array index     *)
(* arithmetic and the ingestion of committed change events.                *)
(*                                                                         *)
(* Timestamps are milliseconds since the epoch.  TLC integers are 32 bit,  *)
(* so every instant of the model lies in January 1970; the calendar        *)
(* arithmetic of Date is modelled for that range.                          *)
(***************************************************************************)
EXTENDS Integers, Sequences, FiniteSets, TLC

(***************************************************************************)
(* time/constants.ts                                                       *)
(***************************************************************************)
BUCKET_MINUTES == 5
BUCKETS_PER_DAY == 288
BUCKETS_PER_WEEK == 2016
MIN_BUCKET_ID == 0
MAX_BUCKET_ID == 2015
NUM_CLOCKS == 5
VALUES_PER_BUCKET_GROUP == BUCKETS_PER_WEEK * NUM_CLOCKS

msPerDay == 86400000

\* "undefined" (no bucket / no timestamp / no sunrise) and a thrown Error are
\* values outside every bucket and timestamp range of the model.
Undefined == -1
Thrown == -2

Min(a, b) == IF a < b THEN a ELSE b
Max(a, b) == IF a > b THEN a ELSE b

\* const x = v; ... : the value of the rest, F, with x bound to v
With(v, F(_)) == F(v)

(***************************************************************************)
(* Date: the UTC calendar fields the mappers read.                         *)
(***************************************************************************)
\* Date.prototype.getUTCDay: 0 = Sunday; 1970-01-01 was a Thursday.
getUTCDay(tsMs) == (4 + tsMs \div msPerDay) % 7
getUTCHours(tsMs) == (tsMs % msPerDay) \div 3600000
getUTCMinutes(tsMs) == (tsMs % 3600000) \div 60000
getUTCSeconds(tsMs) == (tsMs % 60000) \div 1000
getUTCMilliseconds(tsMs) == tsMs % 1000

\* jsDayOfWeek === 0 ? 6 : jsDayOfWeek - 1
mondayBased(jsDayOfWeek) == IF jsDayOfWeek = 0 THEN 6 ELSE jsDayOfWeek - 1

(***************************************************************************)
(* time/bucket.ts                                                          *)
(***************************************************************************)
\* dayAndMinutesToBucketId that rounds the minute up to the next bucket
dayAndMinutesToBucketIdRoundingUp(dayOfWeek, minutesIntoDay) ==
  IF dayOfWeek < 0 \/ dayOfWeek > 6 THEN Thrown
  ELSE IF minutesIntoDay < 0 \/ minutesIntoDay > 1439 THEN Thrown
  ELSE dayOfWeek * BUCKETS_PER_DAY
         + ((minutesIntoDay + BUCKET_MINUTES - 1) \div BUCKET_MINUTES)

dayAndMinutesToBucketId(dayOfWeek, minutesIntoDay) ==
  IF dayOfWeek < 0 \/ dayOfWeek > 6 THEN Thrown
  ELSE IF minutesIntoDay < 0 \/ minutesIntoDay > 1439 THEN Thrown
  ELSE dayOfWeek * BUCKETS_PER_DAY + (minutesIntoDay \div BUCKET_MINUTES)

\* the returned object as <<object>>, or <<>> where the call throws
bucketIdToDayAndMinutes(bucketId) ==
  IF bucketId < MIN_BUCKET_ID \/ bucketId > MAX_BUCKET_ID THEN <<>>
  ELSE <<[dayOfWeek |-> bucketId \div BUCKETS_PER_DAY,
          startMinute |-> (bucketId % BUCKETS_PER_DAY) * BUCKET_MINUTES,
          endMinute |-> (bucketId % BUCKETS_PER_DAY) * BUCKET_MINUTES
                          + BUCKET_MINUTES]>>

\* cyclicDistance that returns the raw difference
cyclicDistanceUnwrapped(bucketId1, bucketId2) ==
  IF bucketId1 < MIN_BUCKET_ID \/ bucketId1 > MAX_BUCKET_ID THEN <<>>
  ELSE IF bucketId2 < MIN_BUCKET_ID \/ bucketId2 > MAX_BUCKET_ID THEN <<>>
  ELSE <<bucketId2 - bucketId1>>

\* the returned distance as <<diff>>, or <<>> where the call throws
cyclicDistance(bucketId1, bucketId2) ==
  IF bucketId1 < MIN_BUCKET_ID \/ bucketId1 > MAX_BUCKET_ID THEN <<>>
  ELSE IF bucketId2 < MIN_BUCKET_ID \/ bucketId2 > MAX_BUCKET_ID THEN <<>>
  ELSE IF bucketId1 = bucketId2 THEN <<0>>
  ELSE
    LET diff == bucketId2 - bucketId1
        halfWeek == BUCKETS_PER_WEEK \div 2
    IN IF diff > halfWeek THEN <<diff - BUCKETS_PER_WEEK>>
       ELSE IF diff < 0 - halfWeek THEN <<diff + BUCKETS_PER_WEEK>>
       ELSE <<diff>>

(***************************************************************************)
(* time/timeOfDay.ts.  The caller's add is one of two functions: "sum"     *)
(* adds numbers, "concat" joins sequences (it is not commutative).         *)
(***************************************************************************)
ApplyAdd(add, a, b) == IF add = "sum" THEN a + b ELSE a \o b

\* for (dayOfWeek = 0; dayOfWeek < 7; dayOfWeek++); aggregated is <<>> while
\* undefined and <<value>> afterwards
RECURSIVE aggregateDays(_, _, _, _, _)
aggregateDays(buckets, add, dayBucket, dayOfWeek, aggregated) ==
  IF dayOfWeek >= 7 THEN aggregated
  ELSE
    LET bucketId == dayOfWeek * BUCKETS_PER_DAY + dayBucket
    IN IF bucketId \in DOMAIN buckets
         THEN aggregateDays(buckets, add, dayBucket, dayOfWeek + 1,
                IF aggregated = <<>> THEN <<buckets[bucketId]>>
                ELSE <<ApplyAdd(add, aggregated[1], buckets[bucketId])>>)
         ELSE aggregateDays(buckets, add, dayBucket, dayOfWeek + 1,
                            aggregated)

\* aggregateTimeOfDay that sets an entry for every day position, the zero
\* value where no day has data
aggregateTimeOfDayZeroFilled(buckets, add, zero) ==
  [dayBucket \in 0..(BUCKETS_PER_DAY - 1) |->
     IF aggregateDays(buckets, add, dayBucket, 0, <<>>) = <<>> THEN zero
     ELSE aggregateDays(buckets, add, dayBucket, 0, <<>>)[1]]

aggregateTimeOfDay(buckets, add, zero) ==
  [dayBucket \in {d \in 0..(BUCKETS_PER_DAY - 1) :
                    aggregateDays(buckets, add, d, 0, <<>>) # <<>>} |->
     aggregateDays(buckets, add, dayBucket, 0, <<>>)[1]]

(***************************************************************************)
(* clocks/utc.ts                                                           *)
(***************************************************************************)
mapUtcToBucket(tsMs) ==
  LET dayOfWeek == mondayBased(getUTCDay(tsMs))
      minutesIntoDay == getUTCHours(tsMs) * 60 + getUTCMinutes(tsMs)
  IN dayAndMinutesToBucketId(dayOfWeek, minutesIntoDay)

(***************************************************************************)
(* Clock configuration (clocks/types.ts) and the external collaborators    *)
(* the mappers consult.  A configuration carries timezone, latitude and    *)
(* longitude (whole degrees); the fields season and sun stand for what the *)
(* NOAA series and the sunrise/sunset provider yield for that location in  *)
(* the model's window.                                                     *)
(***************************************************************************)

\* Intl.DateTimeFormat: offset of civil time from UTC, in minutes.  The two
\* DST zones change offset at DstTransitionMs (Sunday 1970-01-11 07:00 UTC).
DstTransitionMs == 889200000

utcOffsetMinutes(timezone, tsMs) ==
  CASE timezone = "UTC" -> 0
    [] timezone = "Asia/Kolkata" -> 330
    [] timezone = "America/New_York" -> -300
    [] timezone = "DST/SpringForward" ->
         IF tsMs < DstTransitionMs THEN -300 ELSE -240
    [] timezone = "DST/FallBack" ->
         IF tsMs < DstTransitionMs THEN -240 ELSE -300

\* exact floor(x * m / d) for 0 <= x, 0 <= m, 0 < d < 10^8 without leaving
\* 32 bits: m is consumed in base-8 digits, carrying quotient and remainder.
RECURSIVE MulDivQR(_, _, _)
MulDivQR(x, m, d) ==
  IF m = 0 THEN [q |-> 0, r |-> 0]
  ELSE LET h == MulDivQR(x, m \div 8, d)
           lo == m % 8
           t == h.r * 8 + (x % d) * lo
       IN [q |-> h.q * 8 + (x \div d) * lo + (t \div d), r |-> t % d]

MulDivFloor(x, m, d) == MulDivQR(x, m, d).q

(***************************************************************************)
(* clocks/local.ts                                                         *)
(***************************************************************************)
mapLocalToBucket(tsMs, config) ==
  LET wallMs == tsMs + utcOffsetMinutes(config.timezone, tsMs) * 60000
      \* formatter.formatToParts: weekday, hour (0..23), minute
      dayOfWeek == mondayBased(getUTCDay(wallMs))
      hour == getUTCHours(wallMs)
      minute == getUTCMinutes(wallMs)
      minutesIntoDay == hour * 60 + minute
  IN dayAndMinutesToBucketId(dayOfWeek, minutesIntoDay)

(***************************************************************************)
(* clocks/meanSolar.ts                                                     *)
(***************************************************************************)
Abs(x) == IF x < 0 THEN -x ELSE x

\* the two while loops that bring ms-into-day back into [0, msPerDay) and
\* move the day of week along
RECURSIVE normalizeDay(_, _)
normalizeDay(msIntoDay, dayOfWeek) ==
  IF msIntoDay < 0
    THEN normalizeDay(msIntoDay + msPerDay,
                      IF dayOfWeek = 0 THEN 6 ELSE dayOfWeek - 1)
  ELSE IF msIntoDay >= msPerDay
    THEN normalizeDay(msIntoDay - msPerDay,
                      IF dayOfWeek = 6 THEN 0 ELSE dayOfWeek + 1)
  ELSE [ms |-> msIntoDay, dayOfWeek |-> dayOfWeek]

utcMsIntoDay(tsMs) ==
  getUTCHours(tsMs) * 3600000 + getUTCMinutes(tsMs) * 60000
    + getUTCSeconds(tsMs) * 1000 + getUTCMilliseconds(tsMs)

\* (config.longitude / 15) * 3600000
longitudeOffsetMs(config) == config.longitude * 240000

meanSolarTime(tsMs, config) ==
  normalizeDay(utcMsIntoDay(tsMs) + longitudeOffsetMs(config),
               mondayBased(getUTCDay(tsMs)))

minutesOfMsIntoDay(ms) == (ms \div 3600000) * 60 + ((ms % 3600000) \div 60000)

\* mapMeanSolarToBucket that is undefined within a degree of a pole
mapMeanSolarToBucketNearPoles(tsMs, config) ==
  IF Abs(config.latitude) >= 89 THEN Undefined
  ELSE LET n == meanSolarTime(tsMs, config)
       IN dayAndMinutesToBucketId(n.dayOfWeek, minutesOfMsIntoDay(n.ms))

mapMeanSolarToBucket(tsMs, config) ==
  IF Abs(config.latitude) = 90 THEN Undefined
  ELSE LET n == meanSolarTime(tsMs, config)
       IN dayAndMinutesToBucketId(n.dayOfWeek, minutesOfMsIntoDay(n.ms))

(***************************************************************************)
(* clocks/apparentSolar.ts                                                 *)
(***************************************************************************)
\* equationOfTime, in milliseconds.  The argument of the NOAA series is
\*   y = 2pi/365 * (dayOfYear - 1 + (hour - 12)/24)
\* with dayOfYear = diffMs/oneDayMs + 1 (fractional) and hour taken to the
\* second.  The series itself is linearised around noon of 1970-01-05: one
\* millisecond of equation-of-time per EqInverseRate milliseconds of the
\* argument, rising when config.season = "rising" and falling otherwise.
EqInverseRate == 4000
EqReferenceMs == -335000
EqArgReference == 388800000

equationOfTimeArgMs(tsMs) ==
  LET diffMs == tsMs            \* startOfYear is the epoch in 1970
      hourMs == getUTCHours(tsMs) * 3600000 + getUTCMinutes(tsMs) * 60000
                  + getUTCSeconds(tsMs) * 1000
  IN diffMs + (hourMs - 43200000)

equationOfTimeMs(tsMs, config) ==
  LET delta == (equationOfTimeArgMs(tsMs) - EqArgReference) \div EqInverseRate
  IN IF config.season = "rising" THEN EqReferenceMs + delta
     ELSE EqReferenceMs - delta

mapApparentSolarToBucket(tsMs, config) ==
  IF Abs(config.latitude) = 90 THEN Undefined
  ELSE IF mapMeanSolarToBucket(tsMs, config) = Undefined THEN Undefined
  ELSE LET m == meanSolarTime(tsMs, config)
           a == normalizeDay(m.ms + equationOfTimeMs(tsMs, config), m.dayOfWeek)
       IN dayAndMinutesToBucketId(a.dayOfWeek, minutesOfMsIntoDay(a.ms))


(***************************************************************************)
(* clocks/suncalc-wrapper.ts: getTimes, the sunrise/sunset provider.  It   *)
(* is an external collaborator; config.sun names what it reports for the   *)
(* configured location: a sunrise and a sunset instant for the UTC day, or *)
(* none (polar day/night).                                                 *)
(***************************************************************************)
NoSun == [sunrise |-> Undefined, sunset |-> Undefined]

\* last day with a sunrise under "onset", first one under "ending"
OnsetLastSunDay == 6
EndingFirstSunDay == 8

shortDay(day) == [sunrise |-> day * msPerDay + 43190250,
                  sunset  |-> day * msPerDay + 43210250]

getTimes(day, config) ==
  CASE config.sun = "temperate" ->
         [sunrise |-> day * msPerDay + 22200000,
          sunset  |-> day * msPerDay + 64220000]
    [] config.sun = "shortDays" -> shortDay(day)
    [] config.sun = "onset" ->
         IF day <= OnsetLastSunDay THEN shortDay(day) ELSE NoSun
    [] config.sun = "ending" ->
         IF day >= EndingFirstSunDay THEN shortDay(day) ELSE NoSun
    [] config.sun = "polar" -> NoSun
    \* the instants of config.reports, for the day before config.reportDay,
    \* that day and the day after
    [] config.sun = "reported" -> config.reports[day - config.reportDay]

(***************************************************************************)
(* clocks/unequalHours.ts                                                  *)
(***************************************************************************)
utcDayNumber(tsMs) == tsMs \div msPerDay

\* the daylight spread over six hours instead of twelve
mapUnequalHoursToBucketShortDay(tsMs, config) ==
  LET day == utcDayNumber(tsMs)
      times == getTimes(day, config)
      sunriseMs == times.sunrise
      sunsetMs == times.sunset
      nextSunriseMs == getTimes(day + 1, config).sunrise
      prevSunsetMs == getTimes(day - 1, config).sunset
      isDayPeriod == tsMs >= sunriseMs /\ tsMs < sunsetMs
      isNightPeriod == tsMs >= sunsetMs /\ tsMs < nextSunriseMs
      dateDayOfWeek == mondayBased(getUTCDay(tsMs))
  IN
  IF sunriseMs = Undefined \/ sunsetMs = Undefined THEN Undefined
  ELSE IF nextSunriseMs = Undefined THEN Undefined
  ELSE IF ~isDayPeriod /\ ~isNightPeriod THEN
    \* before sunrise today: night from the previous sunset to this sunrise
    IF prevSunsetMs = Undefined THEN Undefined
    ELSE LET nightDurationMs == sunriseMs - prevSunsetMs
             elapsed == tsMs - prevSunsetMs
             \* floor(positionInNight * 720)
             m == MulDivFloor(elapsed, 720, nightDurationMs)
         IN IF 2 * elapsed < nightDurationMs
              THEN dayAndMinutesToBucketId(
                     mondayBased(getUTCDay(prevSunsetMs)), 1080 + m)
              ELSE dayAndMinutesToBucketId(dateDayOfWeek, m - 360)
  ELSE IF isDayPeriod THEN
    LET dayDurationMs == sunsetMs - sunriseMs
    IN dayAndMinutesToBucketId(
         dateDayOfWeek,
         360 + MulDivFloor(tsMs - sunriseMs, 360, dayDurationMs))
  ELSE
    LET nightDurationMs == nextSunriseMs - sunsetMs
        elapsed == tsMs - sunsetMs
        m == MulDivFloor(elapsed, 720, nightDurationMs)
    IN IF 2 * elapsed < nightDurationMs
         THEN dayAndMinutesToBucketId(dateDayOfWeek, 1080 + m)
         ELSE dayAndMinutesToBucketId(
                mondayBased(getUTCDay(nextSunriseMs)), m - 360)

mapUnequalHoursToBucket(tsMs, config) ==
  LET day == utcDayNumber(tsMs)
      times == getTimes(day, config)
      sunriseMs == times.sunrise
      sunsetMs == times.sunset
      nextSunriseMs == getTimes(day + 1, config).sunrise
      prevSunsetMs == getTimes(day - 1, config).sunset
      isDayPeriod == tsMs >= sunriseMs /\ tsMs < sunsetMs
      isNightPeriod == tsMs >= sunsetMs /\ tsMs < nextSunriseMs
      dateDayOfWeek == mondayBased(getUTCDay(tsMs))
  IN
  IF sunriseMs = Undefined \/ sunsetMs = Undefined THEN Undefined
  ELSE IF nextSunriseMs = Undefined THEN Undefined
  ELSE IF ~isDayPeriod /\ ~isNightPeriod THEN
    \* before sunrise today: night from the previous sunset to this sunrise
    IF prevSunsetMs = Undefined THEN Undefined
    ELSE LET nightDurationMs == sunriseMs - prevSunsetMs
             elapsed == tsMs - prevSunsetMs
             \* floor(positionInNight * 720)
             m == MulDivFloor(elapsed, 720, nightDurationMs)
         IN IF 2 * elapsed < nightDurationMs
              THEN dayAndMinutesToBucketId(
                     mondayBased(getUTCDay(prevSunsetMs)), 1080 + m)
              ELSE dayAndMinutesToBucketId(dateDayOfWeek, m - 360)
  ELSE IF isDayPeriod THEN
    LET dayDurationMs == sunsetMs - sunriseMs
    IN dayAndMinutesToBucketId(
         dateDayOfWeek,
         360 + MulDivFloor(tsMs - sunriseMs, 720, dayDurationMs))
  ELSE
    LET nightDurationMs == nextSunriseMs - sunsetMs
        elapsed == tsMs - sunsetMs
        m == MulDivFloor(elapsed, 720, nightDurationMs)
    IN IF 2 * elapsed < nightDurationMs
         THEN dayAndMinutesToBucketId(dateDayOfWeek, 1080 + m)
         ELSE dayAndMinutesToBucketId(
                mondayBased(getUTCDay(nextSunriseMs)), m - 360)

(***************************************************************************)
(* clocks/mapTimestamp.ts                                                  *)
(***************************************************************************)
ALL_CLOCKS == <<"utc", "local", "meanSolar", "apparentSolar", "unequalHours">>

mapTimestampToBucket(clockId, tsMs, config) ==
  CASE clockId = "utc" -> mapUtcToBucket(tsMs)
    [] clockId = "local" -> mapLocalToBucket(tsMs, config)
    [] clockId = "meanSolar" -> mapMeanSolarToBucket(tsMs, config)
    [] clockId = "apparentSolar" -> mapApparentSolarToBucket(tsMs, config)
    [] clockId = "unequalHours" -> mapUnequalHoursToBucket(tsMs, config)


(***************************************************************************)
(* measurement/splitHoldInterval.ts                                        *)
(***************************************************************************)
\* Map<number, number>: a function from the keys present to their values
EmptyMap == [b \in {} |-> 0]
MapGet(m, k) == IF k \in DOMAIN m THEN m[k] ELSE 0
MapSet(m, k, v) == [x \in (DOMAIN m) \cup {k} |-> IF x = k THEN v ELSE m[x]]

RECURSIVE SumOver(_, _)
SumOver(f, S) ==
  IF S = {} THEN 0
  ELSE LET x == CHOOSE y \in S : TRUE IN f[x] + SumOver(f, S \ {x})

MapSum(m) == SumOver(m, DOMAIN m)

\* binary search between a timestamp in currentBucket and one that is not
RECURSIVE refineBucketBoundary(_, _, _, _, _, _)
refineBucketBoundary(lowMs, highMs, currentBucket, clockId, config, maxTime) ==
  IF highMs - lowMs > 1 THEN
    LET midMs == (lowMs + highMs) \div 2
        midBucket == mapTimestampToBucket(clockId, midMs, config)
    IN IF midBucket = Undefined \/ midBucket # currentBucket
         THEN refineBucketBoundary(lowMs, midMs, currentBucket, clockId,
                                   config, maxTime)
         ELSE refineBucketBoundary(midMs, highMs, currentBucket, clockId,
                                   config, maxTime)
  ELSE Min(highMs, maxTime)

\* binary search for the last timestamp still in currentBucket before an
\* undefined region; returns lowMs
RECURSIVE refineToLastDefinedTimestamp(_, _, _, _, _, _)
refineToLastDefinedTimestamp(definedMs, undefinedMs, currentBucket, clockId, config, maxTime) ==
  IF undefinedMs - definedMs > 1 THEN
    LET midMs == (definedMs + undefinedMs) \div 2
        midBucket == mapTimestampToBucket(clockId, midMs, config)
    IN IF midBucket = Undefined \/ midBucket # currentBucket
         THEN refineToLastDefinedTimestamp(definedMs, midMs, currentBucket,
                                           clockId, config, maxTime)
         ELSE refineToLastDefinedTimestamp(midMs, undefinedMs, currentBucket,
                                           clockId, config, maxTime)
  ELSE Min(definedMs, maxTime)

\* uniformSearch that takes the bucket to run a full five minutes when no
\* boundary was found, instead of stopping at maxTime
RECURSIVE uniformSearchUnclamped(_, _, _, _, _, _)
uniformSearchUnclamped(searchTime, tsMs, currentBucket, clockId, config, maxTime) ==
  LET maxStep == BUCKET_MINUTES * 60 * 1000
  IN IF searchTime < maxTime /\ searchTime < tsMs + maxStep * 2 THEN
       LET testTime == Min(searchTime + 30000, maxTime)
           testBucket == mapTimestampToBucket(clockId, testTime, config)
       IN IF testBucket = Undefined
            THEN refineToLastDefinedTimestamp(searchTime, testTime,
                   currentBucket, clockId, config, maxTime)
          ELSE IF testBucket # currentBucket
            THEN refineBucketBoundary(searchTime, testTime, currentBucket,
                                      clockId, config, maxTime)
          ELSE uniformSearchUnclamped(testTime, tsMs, currentBucket, clockId,
                                      config, maxTime)
     ELSE tsMs + maxStep

\* the 30-second stepping loop of findUniformBucketEnd
RECURSIVE uniformSearch(_, _, _, _, _, _)
uniformSearch(searchTime, tsMs, currentBucket, clockId, config, maxTime) ==
  LET maxStep == BUCKET_MINUTES * 60 * 1000
  IN IF searchTime < maxTime /\ searchTime < tsMs + maxStep * 2 THEN
       LET testTime == Min(searchTime + 30000, maxTime)
           testBucket == mapTimestampToBucket(clockId, testTime, config)
       IN IF testBucket = Undefined
            THEN refineToLastDefinedTimestamp(searchTime, testTime,
                   currentBucket, clockId, config, maxTime)
          ELSE IF testBucket # currentBucket
            THEN refineBucketBoundary(searchTime, testTime, currentBucket,
                                      clockId, config, maxTime)
          ELSE uniformSearch(testTime, tsMs, currentBucket, clockId, config,
                             maxTime)
     ELSE maxTime

findUniformBucketEnd(tsMs, currentBucket, clockId, config, maxTime) ==
  uniformSearch(tsMs, tsMs, currentBucket, clockId, config, maxTime)

\* the while loop of findNextDefinedTimestamp
RECURSIVE nextDefinedSearch(_, _, _, _, _, _)
nextDefinedSearch(searchTime, clockId, startTime, maxTime, stepMillis, config) ==
  LET maxSkip == 24 * 3600000
  IN IF searchTime < maxTime /\ searchTime < startTime + maxSkip THEN
       LET next == searchTime + stepMillis
       IN IF mapTimestampToBucket(clockId, next, config) # Undefined
            THEN next
            ELSE nextDefinedSearch(next, clockId, startTime, maxTime,
                                   stepMillis, config)
     ELSE Undefined

findNextDefinedTimestamp(clockId, startTime, maxTime, stepMillis, config) ==
  nextDefinedSearch(startTime, clockId, startTime, maxTime, stepMillis, config)

\* the adaptive stepping loop of findUnequalHoursBucketEnd
RECURSIVE unequalSearch(_, _, _, _, _, _, _, _)
unequalSearch(searchTime, initialStep, consecutiveSameBucket, highMs, currentBucket, clockId, config, maxTime) ==
  IF searchTime < highMs THEN
    LET testTime == Min(searchTime + initialStep, highMs)
        testBucket == mapTimestampToBucket(clockId, testTime, config)
        count == consecutiveSameBucket + 1
    IN IF testBucket = Undefined
         THEN refineToLastDefinedTimestamp(searchTime, testTime,
                currentBucket, clockId, config, maxTime)
       ELSE IF testBucket # currentBucket
         THEN refineBucketBoundary(searchTime, testTime, currentBucket,
                                   clockId, config, maxTime)
       ELSE unequalSearch(testTime,
                          IF count > 60 /\ initialStep < 60000
                            THEN 60000 ELSE initialStep,
                          count, highMs, currentBucket, clockId, config,
                          maxTime)
  ELSE maxTime

findUnequalHoursBucketEnd(tsMs, currentBucket, clockId, config, maxTime) ==
  unequalSearch(tsMs, 1000, 0, Min(maxTime, tsMs + 24 * 3600000),
                currentBucket, clockId, config, maxTime)

findBucketEnd(tsMs, bucket, clockId, config, maxTime) ==
  IF clockId = "unequalHours"
    THEN findUnequalHoursBucketEnd(tsMs, bucket, clockId, config, maxTime)
    ELSE findUniformBucketEnd(tsMs, bucket, clockId, config, maxTime)

\* the while (true) loop taken when a bucket end is undefined: the next
\* defined timestamp (1-second steps) whose bucket end is defined
RECURSIVE fineSearch(_, _, _, _)
fineSearch(lastSearchedTime, clockId, config, t1Ms) ==
  With(findNextDefinedTimestamp(clockId, lastSearchedTime, t1Ms, 1000, config),
       LAMBDA searchTime :
    IF searchTime = Undefined THEN Undefined
    ELSE
      With(mapTimestampToBucket(clockId, searchTime, config),
           LAMBDA testBucket :
        IF testBucket = Undefined
          THEN fineSearch(searchTime, clockId, config, t1Ms)
        ELSE IF findBucketEnd(searchTime, testBucket, clockId, config, t1Ms)
                  # Undefined
          THEN searchTime
        ELSE fineSearch(searchTime, clockId, config, t1Ms)))

\* splitLoopBody with the next iteration started one millisecond after the
\* bucket end
splitLoopBodySkipsBoundary(currentTime, result, t1Ms, clockId, config) ==
  With(mapTimestampToBucket(clockId, currentTime, config), LAMBDA bucket :
    IF bucket = Undefined THEN
      With(findNextDefinedTimestamp(clockId, currentTime, t1Ms, 60000, config),
           LAMBDA nextDefinedTime :
        IF nextDefinedTime = Undefined
          THEN [currentTime |-> currentTime, result |-> result, brk |-> TRUE]
          ELSE [currentTime |-> nextDefinedTime, result |-> result,
                brk |-> FALSE])
    ELSE
      With(findBucketEnd(currentTime, bucket, clockId, config, t1Ms),
           LAMBDA bucketEndTime :
        With(bucketEndTime - currentTime, LAMBDA allocatedMs :
          [currentTime |-> bucketEndTime + 1,
           result |-> IF allocatedMs > 0
                        THEN MapSet(result, bucket,
                                    MapGet(result, bucket) + allocatedMs)
                        ELSE result,
           brk |-> FALSE])))

\* one iteration of the main loop of splitHoldInterval, entered with
\* currentTime < t1Ms; brk is TRUE when the iteration leaves by break
splitLoopBody(currentTime, result, t1Ms, clockId, config) ==
  With(mapTimestampToBucket(clockId, currentTime, config), LAMBDA bucket :
    IF bucket = Undefined THEN
      With(findNextDefinedTimestamp(clockId, currentTime, t1Ms, 60000, config),
           LAMBDA nextDefinedTime :
        IF nextDefinedTime = Undefined
          THEN [currentTime |-> currentTime, result |-> result, brk |-> TRUE]
          ELSE [currentTime |-> nextDefinedTime, result |-> result,
                brk |-> FALSE])
    ELSE
      With(findBucketEnd(currentTime, bucket, clockId, config, t1Ms),
           LAMBDA bucketEndTime :
        IF bucketEndTime = Undefined THEN
          With(fineSearch(currentTime, clockId, config, t1Ms), LAMBDA found :
            IF found = Undefined
              THEN [currentTime |-> currentTime, result |-> result,
                    brk |-> TRUE]
              ELSE [currentTime |-> found, result |-> result, brk |-> FALSE])
        ELSE
          With(bucketEndTime - currentTime, LAMBDA allocatedMs :
            [currentTime |-> bucketEndTime,
             result |-> IF allocatedMs > 0
                          THEN MapSet(result, bucket,
                                      MapGet(result, bucket) + allocatedMs)
                          ELSE result,
             brk |-> FALSE])))

\* splitHoldInterval run to completion: the map it returns, or diverges set
\* when an iteration neither breaks nor changes currentTime or result, so
\* that the while loop repeats it forever
RECURSIVE splitLoop(_, _, _, _, _)
splitLoop(currentTime, result, t1Ms, clockId, config) ==
  IF currentTime < t1Ms THEN
    With(splitLoopBody(currentTime, result, t1Ms, clockId, config), LAMBDA r :
      IF r.brk THEN [result |-> r.result, diverges |-> FALSE]
      ELSE IF r.currentTime = currentTime /\ r.result = result
        THEN [result |-> result, diverges |-> TRUE]
      ELSE splitLoop(r.currentTime, r.result, t1Ms, clockId, config))
  ELSE [result |-> result, diverges |-> FALSE]

\* an interval taken for invalid only when it runs backwards
invalidIntervalStrict(t0Ms, t1Ms) == t0Ms > t1Ms

\* if (t0Ms >= t1Ms): invalid interval
invalidInterval(t0Ms, t1Ms) == t0Ms >= t1Ms

splitRun(t0Ms, t1Ms, clockId, config) ==
  IF invalidInterval(t0Ms, t1Ms) THEN [result |-> EmptyMap, diverges |-> FALSE]
  ELSE splitLoop(t0Ms, EmptyMap, t1Ms, clockId, config)

\* the map splitHoldInterval returns, when it returns
splitHoldInterval(t0Ms, t1Ms, clockId, config) ==
  splitRun(t0Ms, t1Ms, clockId, config).result

(***************************************************************************)
(* Dense analytics array: index arithmetic.  An array is held as its       *)
(* length and its non-zero cells.                                          *)
(***************************************************************************)
getArraySize(numStates) == numStates * numStates * VALUES_PER_BUCKET_GROUP

\* holdIndex with the clock groups packed a day apart instead of a week
holdIndexDayStride(state, clock, bucket) ==
  state * VALUES_PER_BUCKET_GROUP + clock * BUCKETS_PER_DAY + bucket

holdIndex(state, clock, bucket) ==
  state * VALUES_PER_BUCKET_GROUP + clock * BUCKETS_PER_WEEK + bucket

\* offsetWithinFromBlock without the shift that skips the diagonal
offsetWithinFromBlockUnshifted(from, to) == to

offsetWithinFromBlock(from, to) == IF to < from THEN to ELSE to - 1

\* transGroupIndex with from-blocks of N groups instead of N - 1
transGroupIndexWideBlocks(from, to, numStates) ==
  IF from = to THEN Thrown
  ELSE IF from < 0 \/ from >= numStates \/ to < 0 \/ to >= numStates
    THEN Thrown
  ELSE from * numStates + offsetWithinFromBlock(from, to)

transGroupIndex(from, to, numStates) ==
  IF from = to THEN Thrown
  ELSE IF from < 0 \/ from >= numStates \/ to < 0 \/ to >= numStates
    THEN Thrown
  ELSE from * (numStates - 1) + offsetWithinFromBlock(from, to)

transIndex(from, to, clock, bucket, numStates) ==
  With(transGroupIndex(from, to, numStates), LAMBDA groupIndex :
    IF groupIndex = Thrown THEN Thrown
    ELSE numStates * VALUES_PER_BUCKET_GROUP
           + groupIndex * VALUES_PER_BUCKET_GROUP
           + clock * BUCKETS_PER_WEEK + bucket)

\* createDenseArray that allocates the holding-time section only
createDenseArrayHoldingOnly(numStates) ==
  [length |-> numStates * VALUES_PER_BUCKET_GROUP, nz |-> EmptyMap]

createDenseArray(numStates) ==
  [length |-> getArraySize(numStates), nz |-> EmptyMap]

validateArraySize(array, numStates) == array.length = getArraySize(numStates)

\* data[index] || 0
ArrGet(data, index) == MapGet(data.nz, index)

\* data[index] = (data[index] || 0) + amount, for every index of the map adds
ArrAddAll(data, adds) ==
  IF DOMAIN adds = {} THEN data
  ELSE [length |-> Max(data.length,
                       1 + CHOOSE i \in DOMAIN adds :
                             \A j \in DOMAIN adds : j <= i),
        nz |-> [i \in (DOMAIN data.nz) \cup (DOMAIN adds) |->
                  ArrGet(data, i) + MapGet(adds, i)]]

(***************************************************************************)
(* convex/measurement.ts: quarter windows.  Date.getUTCFullYear and        *)
(* Date.getUTCMonth are the proleptic Gregorian calendar of the UTC day.   *)
(***************************************************************************)
\* year and month (0..11) of the day that is `days` days after 1970-01-01
civilFromDays(days) ==
  LET z == days + 719468
      era == z \div 146097
      doe == z - era * 146097
      yoe == (doe - doe \div 1460 + doe \div 36524 - doe \div 146096) \div 365
      doy == doe - (365 * yoe + yoe \div 4 - yoe \div 100)
      mp == (5 * doy + 2) \div 153
      m == IF mp < 10 THEN mp + 3 ELSE mp - 9
  IN [year |-> yoe + era * 400 + (IF m <= 2 THEN 1 ELSE 0), month |-> m - 1]

getUTCFullYear(tsMs) == civilFromDays(tsMs \div msPerDay).year
getUTCMonth(tsMs) == civilFromDays(tsMs \div msPerDay).month

getUtcQuarterFromTimestamp(tsMs) ==
  LET month == getUTCMonth(tsMs)
  IN [year |-> getUTCFullYear(tsMs),
      quarter |-> IF month >= 0 /\ month <= 2 THEN 1
                  ELSE IF month >= 3 /\ month <= 5 THEN 2
                  ELSE IF month >= 6 /\ month <= 8 THEN 3
                  ELSE 4]

formatQuarterWindowId(year, quarter) ==
  ToString(year) \o "-Q" \o ToString(quarter)

getQuarterWindowIdFromTimestamp(tsMs) ==
  LET q == getUtcQuarterFromTimestamp(tsMs)
  IN formatQuarterWindowId(q.year, q.quarter)

(***************************************************************************)
(* convex/measurement.ts: chunked storage of a dense array                 *)
(***************************************************************************)
CHUNK_SIZE == 100000

\* the local clock filed under the index of UTC
getClockIndexShared(clockId) ==
  CASE clockId = "utc" -> 0
    [] clockId = "local" -> 0
    [] clockId = "meanSolar" -> 2
    [] clockId = "apparentSolar" -> 3
    [] clockId = "unequalHours" -> 4

getClockIndex(clockId) ==
  CASE clockId = "utc" -> 0
    [] clockId = "local" -> 1
    [] clockId = "meanSolar" -> 2
    [] clockId = "apparentSolar" -> 3
    [] clockId = "unequalHours" -> 4

getNumStates(definition) ==
  IF definition.kind = "radiobutton" THEN definition.numStates ELSE 6

\* validateIntegrity that lets every event through
validateIntegrityLenient(event, prevRuntime) == TRUE

\* the timestamps and states held by the tables are finite numbers, which
\* leaves the interval check and the activeModelId check
validateIntegrity(event, prevRuntime) ==
  IF prevRuntime.lastCommittedAtMs >= event.tsMs THEN FALSE
  ELSE IF event.activeModelId = "" THEN FALSE
  ELSE TRUE

splitIntoChunks(data) ==
  [k \in 1..((data.length + CHUNK_SIZE - 1) \div CHUNK_SIZE) |->
     LET lo == (k - 1) * CHUNK_SIZE
         hi == Min(lo + CHUNK_SIZE, data.length)
     IN [length |-> hi - lo,
         nz |-> [j \in {i - lo : i \in {x \in DOMAIN data.nz :
                                          x >= lo /\ x < hi}} |->
                   data.nz[j + lo]]]]

RECURSIVE assembleLoop(_, _, _)
assembleLoop(chunks, k, result) ==
  IF k > Len(chunks) THEN result
  ELSE assembleLoop(chunks, k + 1,
         [length |-> result.length + chunks[k].length,
          nz |-> [i \in (DOMAIN result.nz)
                          \cup {j + result.length : j \in DOMAIN chunks[k].nz}
                    |-> IF i \in DOMAIN result.nz THEN result.nz[i]
                        ELSE chunks[k].nz[i - result.length]]])

assembleFromChunks(chunks) ==
  assembleLoop(chunks, 1, [length |-> 0, nz |-> EmptyMap])

\* every model of a control filed under one model
BlobKeySharedModel(controlId, modelId, windowId) ==
  [controlId |-> controlId, modelId |-> "m1", windowId |-> windowId]

BlobKey(controlId, modelId, windowId) ==
  [controlId |-> controlId, modelId |-> modelId, windowId |-> windowId]

\* the rows the index by_control_model_window returns for a key
rowsOf(rows, key) ==
  {r \in rows : /\ r.controlId = key.controlId
                /\ r.modelId = key.modelId
                /\ r.windowId = key.windowId}

\* the chunks of the batch with the latest timestamp, in chunkIndex order;
\* found is FALSE where the code returns null
loadChunks(chunkRows, key) ==
  With(rowsOf(chunkRows, key), LAMBDA allChunks :
    IF allChunks = {} THEN [found |-> FALSE, chunks |-> <<>>]
    ELSE
      With(CHOOSE b \in {r.batchId : r \in allChunks} :
             \A r \in allChunks : b.ts >= r.batchId.ts,
           LAMBDA latestBatchId :
        With({r \in allChunks : r.batchId = latestBatchId}, LAMBDA chunks :
          [found |-> TRUE,
           chunks |-> [k \in 1..Cardinality(chunks) |->
                         (CHOOSE r \in chunks : r.chunkIndex = k - 1).data]])))

\* saveChunks that inserts the new batch and deletes nothing
saveChunksKeepingOld(chunkRows, key, chunks, nowMs) ==
  With(CHOOSE s \in 0..1 :
         \A r \in rowsOf(chunkRows, key) :
           r.batchId # [ts |-> nowMs, suffix |-> s],
       LAMBDA suffix :
    chunkRows
      \cup {[controlId |-> key.controlId, modelId |-> key.modelId,
             windowId |-> key.windowId,
             batchId |-> [ts |-> nowMs, suffix |-> suffix],
             chunkIndex |-> k - 1, data |-> chunks[k]] :
            k \in 1..Len(chunks)})

\* inserts the chunks under a new batchId (Date.now() and a random suffix
\* no other batch of the key carries), then deletes the key's other rows
saveChunks(chunkRows, key, chunks, nowMs) ==
  With(CHOOSE s \in 0..1 :
         \A r \in rowsOf(chunkRows, key) :
           r.batchId # [ts |-> nowMs, suffix |-> s],
       LAMBDA suffix :
    (chunkRows \ rowsOf(chunkRows, key))
      \cup {[controlId |-> key.controlId, modelId |-> key.modelId,
             windowId |-> key.windowId,
             batchId |-> [ts |-> nowMs, suffix |-> suffix],
             chunkIndex |-> k - 1, data |-> chunks[k]] :
            k \in 1..Len(chunks)})

\* the tables after the call, and the array handed back
loadOrCreateBlob(blobs, chunkRows, key, numStates, nowMs) ==
  With(rowsOf(blobs, key), LAMBDA existing :
    With(createDenseArray(numStates), LAMBDA newData :
      With(saveChunks(chunkRows, key, splitIntoChunks(newData), nowMs),
           LAMBDA newRows :
        IF existing # {} THEN
          With(loadChunks(chunkRows, key), LAMBDA loaded :
            IF ~loaded.found
              THEN [blobs |-> blobs, chunkRows |-> newRows, data |-> newData]
            ELSE
              With(assembleFromChunks(loaded.chunks), LAMBDA data :
                IF ~validateArraySize(data, numStates)
                  THEN [blobs |-> (blobs \ existing)
                                  \cup {[b EXCEPT !.numStates = numStates,
                                                  !.version = 1] :
                                        b \in existing},
                        chunkRows |-> newRows, data |-> newData]
                  ELSE [blobs |-> blobs, chunkRows |-> chunkRows,
                        data |-> data]))
        ELSE [blobs |-> blobs \cup {[controlId |-> key.controlId,
                                     modelId |-> key.modelId,
                                     windowId |-> key.windowId,
                                     numStates |-> numStates, version |-> 1]},
              chunkRows |-> newRows, data |-> newData])))

(***************************************************************************)
(* convex/measurement.ts: ingestCommittedEvent                             *)
(***************************************************************************)
\* the holding-time additions of one clock: index -> milliseconds
holdingAdds(state, clockId, bucketAllocations) ==
  [i \in {holdIndex(state, getClockIndex(clockId), b) :
            b \in DOMAIN bucketAllocations} |->
     bucketAllocations[i - holdIndex(state, getClockIndex(clockId), 0)]]

\* for (const clockId of ALL_CLOCKS): split the interval, add the allocations
RECURSIVE holdingLoop(_, _, _, _, _, _)
holdingLoop(data, k, t0Ms, t1Ms, state, clockConfig) ==
  IF k > Len(ALL_CLOCKS) THEN [data |-> data, diverges |-> FALSE]
  ELSE
    With(splitRun(t0Ms, t1Ms, ALL_CLOCKS[k], clockConfig), LAMBDA run :
      IF run.diverges THEN [data |-> data, diverges |-> TRUE]
      ELSE holdingLoop(
             ArrAddAll(data, holdingAdds(state, ALL_CLOCKS[k], run.result)),
             k + 1, t0Ms, t1Ms, state, clockConfig))

\* for (const clockId of ALL_CLOCKS): count the transition where defined
RECURSIVE transitionLoop(_, _, _, _, _)
transitionLoop(data, k, event, numStates, clockConfig) ==
  IF k > Len(ALL_CLOCKS) THEN [data |-> data, thrown |-> FALSE]
  ELSE
    With(mapTimestampToBucket(ALL_CLOCKS[k], event.tsMs, clockConfig),
         LAMBDA bucketId :
      IF bucketId = Undefined
        THEN transitionLoop(data, k + 1, event, numStates, clockConfig)
      ELSE
        With(transIndex(event.fromDiscreteState, event.toDiscreteState,
                        getClockIndex(ALL_CLOCKS[k]), bucketId, numStates),
             LAMBDA index :
          IF index = Thrown THEN [data |-> data, thrown |-> TRUE]
          ELSE transitionLoop(ArrAddAll(data, index :> 1), k + 1, event,
                              numStates, clockConfig)))

\* ingestCommittedEvent that counts the transition of every event, whoever
\* initiated it
ingestCommittedEventCountingAll(configTable, controlTable, blobs, chunkRows, event, prevRuntime, nowMs) ==
  IF configTable = {}
    THEN [blobs |-> blobs, chunkRows |-> chunkRows, status |-> "noConfig"]
  ELSE IF event.controlId \notin DOMAIN controlTable
    THEN [blobs |-> blobs, chunkRows |-> chunkRows, status |-> "noControl"]
  ELSE IF ~validateIntegrity(event, prevRuntime)
    THEN [blobs |-> blobs, chunkRows |-> chunkRows, status |-> "discarded"]
  ELSE
    With(getNumStates(controlTable[event.controlId]), LAMBDA numStates :
    With((CHOOSE c \in configTable : TRUE).location, LAMBDA clockConfig :
    With(BlobKey(event.controlId, event.activeModelId, "default"), LAMBDA key :
    With(loadOrCreateBlob(blobs, chunkRows, key, numStates, nowMs),
         LAMBDA blob :
    With(holdingLoop(blob.data, 1, prevRuntime.lastCommittedAtMs, event.tsMs,
                     prevRuntime.lastCommittedDiscreteState, clockConfig),
         LAMBDA held :
      IF held.diverges
        THEN [blobs |-> blobs, chunkRows |-> chunkRows, status |-> "diverges"]
      ELSE
        With(transitionLoop(held.data, 1, event, numStates, clockConfig),
             LAMBDA counted :
          IF counted.thrown
            THEN [blobs |-> blob.blobs, chunkRows |-> blob.chunkRows,
                  status |-> "threw"]
            ELSE [blobs |-> blob.blobs,
                  chunkRows |-> saveChunks(blob.chunkRows, key,
                                           splitIntoChunks(counted.data),
                                           nowMs),
                  status |-> "saved"]))))))

\* the analytics tables after the call and how the call ended: "noConfig",
\* "discarded" (integrity), "threw" (caught error), "saved", or "diverges"
\* when a split never returns
ingestCommittedEvent(configTable, controlTable, blobs, chunkRows, event, prevRuntime, nowMs) ==
  IF configTable = {}
    THEN [blobs |-> blobs, chunkRows |-> chunkRows, status |-> "noConfig"]
  ELSE IF event.controlId \notin DOMAIN controlTable
    THEN [blobs |-> blobs, chunkRows |-> chunkRows, status |-> "noControl"]
  ELSE IF ~validateIntegrity(event, prevRuntime)
    THEN [blobs |-> blobs, chunkRows |-> chunkRows, status |-> "discarded"]
  ELSE
    With(getNumStates(controlTable[event.controlId]), LAMBDA numStates :
    With((CHOOSE c \in configTable : TRUE).location, LAMBDA clockConfig :
    With(BlobKey(event.controlId, event.activeModelId, "default"), LAMBDA key :
    With(loadOrCreateBlob(blobs, chunkRows, key, numStates, nowMs),
         LAMBDA blob :
    With(holdingLoop(blob.data, 1, prevRuntime.lastCommittedAtMs, event.tsMs,
                     prevRuntime.lastCommittedDiscreteState, clockConfig),
         LAMBDA held :
      IF held.diverges
        THEN [blobs |-> blobs, chunkRows |-> chunkRows, status |-> "diverges"]
      ELSE
        With(IF event.initiator = "user"
               THEN transitionLoop(held.data, 1, event, numStates, clockConfig)
               ELSE [data |-> held.data, thrown |-> FALSE],
             LAMBDA counted :
          IF counted.thrown
            THEN [blobs |-> blob.blobs, chunkRows |-> blob.chunkRows,
                  status |-> "threw"]
            ELSE [blobs |-> blob.blobs,
                  chunkRows |-> saveChunks(blob.chunkRows, key,
                                           splitIntoChunks(counted.data),
                                           nowMs),
                  status |-> "saved"]))))))

(***************************************************************************)
(* packages/core/src/domain/slider.ts.  A slider value is held in          *)
(* sixty-fourths, which are exact in binary floating point: SliderOne      *)
(* stands for 1.                                                           *)
(***************************************************************************)
SliderOne == 64

getStateCenter(state) ==
  CASE state = 0 -> 0
    [] state = 1 -> SliderOne \div 8
    [] state = 2 -> (3 * SliderOne) \div 8
    [] state = 3 -> (5 * SliderOne) \div 8
    [] state = 4 -> (7 * SliderOne) \div 8
    [] state = 5 -> SliderOne

\* every tie resolved towards the lower state
handleBoundaryTiesDown(value, lowerState, higherState, policy) ==
  LET distToLower == Abs(value - getStateCenter(lowerState))
      distToHigher == Abs(value - getStateCenter(higherState))
  IN CASE policy = "roundDown" -> lowerState
       [] policy = "roundUp" -> higherState
       [] policy = "roundNearest" ->
            IF distToHigher < distToLower THEN higherState ELSE lowerState
       [] policy = "roundNearestTiesUp" ->
            IF distToHigher < distToLower THEN higherState ELSE lowerState

handleBoundary(value, lowerState, higherState, policy) ==
  LET distToLower == Abs(value - getStateCenter(lowerState))
      distToHigher == Abs(value - getStateCenter(higherState))
  IN CASE policy = "roundDown" -> lowerState
       [] policy = "roundUp" -> higherState
       [] policy = "roundNearest" ->
            IF distToLower < distToHigher THEN lowerState
            ELSE IF distToHigher < distToLower THEN higherState
            ELSE lowerState
       [] policy = "roundNearestTiesUp" ->
            IF distToLower < distToHigher THEN lowerState
            ELSE IF distToHigher < distToLower THEN higherState
            ELSE higherState

discretizeSlider(value01, policy) ==
  IF value01 = 0 THEN 0
  ELSE IF value01 = SliderOne THEN 5
  ELSE IF value01 = SliderOne \div 4
    THEN handleBoundary(SliderOne \div 4, 1, 2, policy)
  ELSE IF value01 = SliderOne \div 2
    THEN handleBoundary(SliderOne \div 2, 2, 3, policy)
  ELSE IF value01 = (3 * SliderOne) \div 4
    THEN handleBoundary((3 * SliderOne) \div 4, 3, 4, policy)
  ELSE IF value01 > 0 /\ value01 < SliderOne \div 4 THEN 1
  ELSE IF value01 > SliderOne \div 4 /\ value01 < SliderOne \div 2 THEN 2
  ELSE IF value01 > SliderOne \div 2 /\ value01 < (3 * SliderOne) \div 4 THEN 3
  ELSE IF value01 > (3 * SliderOne) \div 4 /\ value01 < SliderOne THEN 4
  ELSE Thrown

(***************************************************************************)
(* packages/core/src/domain: validation of definitions and requests        *)
(***************************************************************************)
\* a definition is held with the length of its labels array
controlDefinitionSchema(definition) ==
  IF definition.kind = "radiobutton"
    THEN /\ definition.numStates >= 2
         /\ definition.numStates <= 10
         /\ definition.labels = definition.numStates
    ELSE definition.kind = "slider"

\* a state schema whose upper end is numStates rather than numStates - 1
discreteStateSchemaInclusive(definition, state) ==
  IF definition.kind = "radiobutton"
    THEN state >= 0 /\ state <= definition.numStates
    ELSE state >= 0 /\ state <= 5

discreteStateSchema(definition, state) ==
  IF definition.kind = "radiobutton"
    THEN state >= 0 /\ state <= definition.numStates - 1
    ELSE state >= 0 /\ state <= 5

setControlValueRequestSchema(payload) ==
  /\ payload.controlId # ""
  /\ payload.initiator \in {"user", "model"}
  /\ IF payload.kind = "radiobutton" THEN payload.newState >= 0
     ELSE payload.newValue01 >= 0 /\ payload.newValue01 <= SliderOne

(***************************************************************************)
(* Inputs of the splitter.  A scenario is a clock, a configuration and an  *)
(* anchor instant at which that clock's mapping changes; the interval      *)
(* starts up to MaxBefore units before the anchor and ends up to MaxAfter  *)
(* units after it.                                                         *)
(***************************************************************************)
MaxBefore == 2
MaxAfter == 2

WeekStartMs == 4 * msPerDay            \* Monday 1970-01-05 00:00 UTC
NextWeekStartMs == 11 * msPerDay       \* Monday 1970-01-12 00:00 UTC
BucketEdgeMs == WeekStartMs + 43500000 \* Monday 12:05 UTC
MidnightMs == 6 * msPerDay             \* Wednesday 1970-01-07 00:00 UTC

TemperateConfig ==
  [timezone |-> "America/New_York", latitude |-> 41, longitude |-> -74,
   season |-> "falling", sun |-> "temperate"]
KolkataConfig ==
  [timezone |-> "Asia/Kolkata", latitude |-> 19, longitude |-> 73,
   season |-> "falling", sun |-> "temperate"]
SpringForwardConfig ==
  [timezone |-> "DST/SpringForward", latitude |-> 41, longitude |-> -74,
   season |-> "falling", sun |-> "temperate"]
FallBackConfig ==
  [timezone |-> "DST/FallBack", latitude |-> 41, longitude |-> -74,
   season |-> "falling", sun |-> "temperate"]
RisingConfig ==
  [timezone |-> "UTC", latitude |-> 51, longitude |-> 0,
   season |-> "rising", sun |-> "temperate"]
FallingConfig ==
  [timezone |-> "UTC", latitude |-> 51, longitude |-> 0,
   season |-> "falling", sun |-> "temperate"]
PoleConfig ==
  [timezone |-> "UTC", latitude |-> 90, longitude |-> 0,
   season |-> "falling", sun |-> "polar"]
ShortDaysConfig ==
  [timezone |-> "UTC", latitude |-> 80, longitude |-> 0,
   season |-> "falling", sun |-> "shortDays"]
OnsetConfig ==
  [timezone |-> "UTC", latitude |-> 80, longitude |-> 0,
   season |-> "falling", sun |-> "onset"]
EndingConfig ==
  [timezone |-> "UTC", latitude |-> 80, longitude |-> 0,
   season |-> "falling", sun |-> "ending"]

Scn(c, cfg, anchor, unit) ==
  [clockId |-> c, config |-> cfg, anchorMs |-> anchor, unitMs |-> unit]

LongUnitMs == 17500
ShortUnitMs == 1100

Scenarios ==
  { Scn("utc", TemperateConfig, BucketEdgeMs, LongUnitMs),
    Scn("utc", TemperateConfig, NextWeekStartMs, LongUnitMs),
    Scn("local", KolkataConfig, BucketEdgeMs, LongUnitMs),
    Scn("local", SpringForwardConfig, DstTransitionMs, LongUnitMs),
    Scn("local", FallBackConfig, DstTransitionMs, LongUnitMs),
    Scn("meanSolar", TemperateConfig, BucketEdgeMs + 60000, LongUnitMs),
    Scn("meanSolar", PoleConfig, BucketEdgeMs, LongUnitMs),
    Scn("apparentSolar", RisingConfig, MidnightMs, LongUnitMs),
    Scn("apparentSolar", FallingConfig, MidnightMs, LongUnitMs),
    Scn("unequalHours", TemperateConfig, WeekStartMs + 64220000, LongUnitMs),
    Scn("unequalHours", ShortDaysConfig, WeekStartMs + 43190250, ShortUnitMs),
    Scn("unequalHours", OnsetConfig, OnsetLastSunDay * msPerDay, LongUnitMs),
    Scn("unequalHours", EndingConfig,
        EndingFirstSunDay * msPerDay + 43190250, ShortUnitMs),
    Scn("unequalHours", PoleConfig, BucketEdgeMs, LongUnitMs) }

(***************************************************************************)
(* Inputs of the mutations                                                 *)
(***************************************************************************)
MaxTicks == 2
MaxEvents == MaxTicks

DashTickMs == ShortUnitMs
DashStartMs == EndingFirstSunDay * msPerDay + 43190250 - 2 * DashTickMs

ControlIds == {"c1"}
NoPolicy == "undefined"

InvalidLatitudeConfig ==
  [timezone |-> "UTC", latitude |-> 91, longitude |-> 0,
   season |-> "falling", sun |-> "polar"]

SetConfigRequests ==
  {[location |-> EndingConfig, sliderBoundaryPolicy |-> "roundNearest"],
   [location |-> EndingConfig, sliderBoundaryPolicy |-> NoPolicy],
   [location |-> InvalidLatitudeConfig, sliderBoundaryPolicy |-> NoPolicy]}

RadiobuttonDefinition ==
  [kind |-> "radiobutton", numStates |-> 2, labels |-> 2]
SliderDefinition == [kind |-> "slider"]
MislabelledDefinition ==
  [kind |-> "radiobutton", numStates |-> 2, labels |-> 3]

CreateControlRequests ==
  {[controlId |-> c, definition |-> d, activeModelId |-> "m1"] :
     c \in ControlIds,
     d \in {RadiobuttonDefinition, SliderDefinition, MislabelledDefinition}}

SetActiveModelRequests ==
  {[controlId |-> c, activeModelId |-> ""] : c \in ControlIds}

SetControlValueRequests ==
  {[controlId |-> c, initiator |-> i, isCommitted |-> k,
    kind |-> "radiobutton", newState |-> s] :
     c \in ControlIds, i \in {"user", "model"}, k \in BOOLEAN, s \in 0..2}
  \cup
  {[controlId |-> c, initiator |-> i, isCommitted |-> k,
    kind |-> "slider", newValue01 |-> v] :
     c \in ControlIds, i \in {"user", "model"}, k \in BOOLEAN,
     v \in {0, SliderOne \div 4, SliderOne + 1}}

(***************************************************************************)
(* State                                                                   *)
(***************************************************************************)
VARIABLES
  params,            \* splitHoldInterval: { t0Ms, t1Ms, clockId, config }
  splitCurrentTime,  \* splitHoldInterval: currentTime
  splitResult,       \* splitHoldInterval: result
  splitPc,           \* splitHoldInterval: "start", "loop" or "done"
  splitIter,         \* parity of the number of main-loop iterations run
  now,                    \* Date.now()
  config,                 \* table config: no row or the singleton row
  controls,               \* table controls: controlId -> definition
  controlRuntime,         \* table controlRuntime: controlId -> row
  committedChangeEvents,  \* table committedChangeEvents, in insertion order
  analyticsBlobs,         \* table analyticsBlobs
  analyticsBlobChunks,    \* table analyticsBlobChunks
  libCall,    \* a call of a function of packages/core: name and arguments
  libResult   \* <<>> while the call runs, then <<what it returned>>

splitVars == <<params, splitCurrentTime, splitResult, splitPc, splitIter>>
tables == <<config, controls, controlRuntime, committedChangeEvents,
            analyticsBlobs, analyticsBlobChunks>>
dashVars == <<now, tables>>
libVars == <<libCall, libResult>>
vars == <<splitVars, dashVars, libVars>>

DashInit ==
  /\ now = DashStartMs
  /\ config = {}
  /\ controls = EmptyMap
  /\ controlRuntime = EmptyMap
  /\ committedChangeEvents = <<>>
  /\ analyticsBlobs = {}
  /\ analyticsBlobChunks = {}

\* no library call is under way
LibIdle ==
  /\ libCall = [fn |-> "none", args |-> <<>>]
  /\ libResult = <<>>

SplitIdle ==
  /\ params = [t0Ms |-> 0, t1Ms |-> 0, clockId |-> "utc",
               config |-> TemperateConfig]
  /\ splitCurrentTime = 0
  /\ splitResult = EmptyMap
  /\ splitPc = "done"
  /\ splitIter = 0

(***************************************************************************)
(* splitHoldInterval, one step per loop iteration                          *)
(***************************************************************************)
SplitInit ==
  /\ \E scn \in Scenarios, i \in 0..MaxBefore, j \in 0..MaxAfter,
        reversed \in BOOLEAN :
       LET a == scn.anchorMs - i * scn.unitMs
           b == scn.anchorMs + j * scn.unitMs
       IN params = [t0Ms |-> IF reversed THEN b ELSE a,
                    t1Ms |-> IF reversed THEN a ELSE b,
                    clockId |-> scn.clockId, config |-> scn.config]
  /\ splitCurrentTime = params.t0Ms
  /\ splitResult = EmptyMap
  /\ splitPc = "start"
  /\ splitIter = 0
  /\ DashInit
  /\ LibIdle

\* if (t0Ms >= t1Ms) return new Map()
SplitInvalidInterval ==
  /\ splitPc = "start"
  /\ invalidInterval(params.t0Ms, params.t1Ms)
  /\ splitPc' = "done"
  /\ UNCHANGED <<params, splitCurrentTime, splitResult, splitIter, dashVars, libVars>>

SplitEnter ==
  /\ splitPc = "start"
  /\ ~invalidInterval(params.t0Ms, params.t1Ms)
  /\ splitPc' = "loop"
  /\ UNCHANGED <<params, splitCurrentTime, splitResult, splitIter, dashVars, libVars>>

\* one iteration of while (currentTime < t1Ms)
SplitIterate ==
  /\ splitPc = "loop"
  /\ splitCurrentTime < params.t1Ms
  /\ \E r \in {splitLoopBody(splitCurrentTime, splitResult, params.t1Ms,
                             params.clockId, params.config)} :
       /\ splitCurrentTime' = r.currentTime
       /\ splitResult' = r.result
       /\ splitPc' = IF r.brk THEN "done" ELSE "loop"
  /\ splitIter' = 1 - splitIter
  /\ UNCHANGED <<params, dashVars, libVars>>

\* the loop condition fails: return result
SplitReturn ==
  /\ splitPc = "loop"
  /\ splitCurrentTime >= params.t1Ms
  /\ splitPc' = "done"
  /\ UNCHANGED <<params, splitCurrentTime, splitResult, splitIter, dashVars, libVars>>

SplitNext == SplitInvalidInterval \/ SplitEnter \/ SplitIterate \/ SplitReturn

SplitSpec == SplitInit /\ [][SplitNext]_vars

(***************************************************************************)
(* convex/mutations.ts.  A mutation is a transaction: a handler that       *)
(* throws, or that never returns, leaves every table as it was.            *)
(***************************************************************************)
setConfig(args) ==
  IF args.location.latitude < -90 \/ args.location.latitude > 90 THEN
    UNCHANGED vars
  ELSE IF args.location.longitude < -180 \/ args.location.longitude > 180 THEN
    UNCHANGED vars
  ELSE
    /\ config' =
         IF config # {}
           THEN {[existingConfig EXCEPT
                    !.location = args.location,
                    !.sliderBoundaryPolicy =
                       IF args.sliderBoundaryPolicy # NoPolicy
                         THEN args.sliderBoundaryPolicy ELSE @] :
                  existingConfig \in config}
           ELSE {[location |-> args.location,
                  sliderBoundaryPolicy |-> args.sliderBoundaryPolicy]}
    /\ UNCHANGED <<splitVars, libVars, now, controls, controlRuntime,
                   committedChangeEvents, analyticsBlobs, analyticsBlobChunks>>

createControl(args) ==
  IF ~controlDefinitionSchema(args.definition) THEN UNCHANGED vars
  ELSE IF args.controlId \in DOMAIN controls THEN UNCHANGED vars
  ELSE
    LET nowMs == now
        initialDiscreteState == 0
        runtimeData ==
          [kind |-> args.definition.kind,
           activeModelId |-> args.activeModelId,
           currentDiscreteState |-> initialDiscreteState,
           lastUpdatedAtMs |-> nowMs,
           lastCommittedAtMs |-> nowMs,
           lastCommittedDiscreteState |-> initialDiscreteState,
           currentValue01 |-> IF args.definition.kind = "slider"
                                THEN 0 ELSE Undefined]
    IN /\ controls' = MapSet(controls, args.controlId, args.definition)
       /\ controlRuntime' = MapSet(controlRuntime, args.controlId, runtimeData)
       /\ UNCHANGED <<splitVars, libVars, now, config, committedChangeEvents,
                      analyticsBlobs, analyticsBlobChunks>>

setActiveModel(args) ==
  IF args.controlId \notin DOMAIN controlRuntime THEN UNCHANGED vars
  ELSE
    /\ controlRuntime' =
         [controlRuntime EXCEPT ![args.controlId].activeModelId =
                                   args.activeModelId]
    /\ UNCHANGED <<splitVars, libVars, now, config, controls, committedChangeEvents,
                   analyticsBlobs, analyticsBlobChunks>>

\* the discrete state a valid request sets, or Thrown
newDiscreteStateOf(payload, definition) ==
  IF payload.kind = "radiobutton" THEN
    IF discreteStateSchema(definition, payload.newState)
      THEN payload.newState ELSE Thrown
  ELSE IF payload.newValue01 < 0 \/ payload.newValue01 > SliderOne THEN Thrown
  ELSE IF config = {} THEN Thrown
  ELSE IF \A c \in config : c.sliderBoundaryPolicy = NoPolicy THEN Thrown
  ELSE discretizeSlider(payload.newValue01,
                        (CHOOSE c \in config : TRUE).sliderBoundaryPolicy)

\* patchedRuntime that writes the commit-tracking fields on every call
patchedRuntimeCommitting(runtime, payload, newDiscreteState, tsMs) ==
  [runtime EXCEPT
     !.currentDiscreteState = newDiscreteState,
     !.lastUpdatedAtMs = tsMs,
     !.currentValue01 = IF payload.kind = "slider"
                          THEN payload.newValue01 ELSE @,
     !.lastCommittedAtMs = tsMs,
     !.lastCommittedDiscreteState = newDiscreteState]

\* patchedRuntime that leaves lastCommittedDiscreteState as it was
patchedRuntimeKeepingState(runtime, payload, newDiscreteState, tsMs) ==
  [runtime EXCEPT
     !.currentDiscreteState = newDiscreteState,
     !.lastUpdatedAtMs = tsMs,
     !.currentValue01 = IF payload.kind = "slider"
                          THEN payload.newValue01 ELSE @,
     !.lastCommittedAtMs = IF payload.isCommitted THEN tsMs ELSE @]

\* the patch of the runtime row that ends the handler
patchedRuntime(runtime, payload, newDiscreteState, tsMs) ==
  [runtime EXCEPT
     !.currentDiscreteState = newDiscreteState,
     !.lastUpdatedAtMs = tsMs,
     !.currentValue01 = IF payload.kind = "slider"
                          THEN payload.newValue01 ELSE @,
     !.lastCommittedAtMs = IF payload.isCommitted THEN tsMs ELSE @,
     !.lastCommittedDiscreteState =
        IF payload.isCommitted THEN newDiscreteState ELSE @]

setControlValue(payload) ==
  IF ~setControlValueRequestSchema(payload) THEN UNCHANGED vars
  ELSE IF payload.controlId \notin DOMAIN controlRuntime THEN UNCHANGED vars
  ELSE IF payload.controlId \notin DOMAIN controls THEN UNCHANGED vars
  ELSE IF payload.kind # controls[payload.controlId].kind THEN UNCHANGED vars
  ELSE
    \E runtime \in {controlRuntime[payload.controlId]}, tsMs \in {now} :
    \E newDiscreteState \in
         {newDiscreteStateOf(payload, controls[payload.controlId])} :
      IF newDiscreteState = Thrown THEN UNCHANGED vars
      ELSE IF ~payload.isCommitted THEN
        /\ controlRuntime' =
             [controlRuntime EXCEPT ![payload.controlId] =
                patchedRuntime(runtime, payload, newDiscreteState, tsMs)]
        /\ UNCHANGED <<splitVars, libVars, now, config, controls,
                       committedChangeEvents, analyticsBlobs,
                       analyticsBlobChunks>>
      ELSE
        \E event \in
             {[tsMs |-> tsMs, controlId |-> payload.controlId,
               fromDiscreteState |-> runtime.lastCommittedDiscreteState,
               toDiscreteState |-> newDiscreteState,
               initiator |-> payload.initiator,
               activeModelId |-> runtime.activeModelId]},
           prevRuntime \in
             {[lastCommittedAtMs |-> runtime.lastCommittedAtMs,
               lastCommittedDiscreteState |->
                 runtime.lastCommittedDiscreteState]} :
        \E ingested \in
             {ingestCommittedEvent(config, controls, analyticsBlobs,
                                   analyticsBlobChunks, event, prevRuntime,
                                   tsMs)} :
          IF ingested.status = "diverges" THEN UNCHANGED vars
          ELSE
            /\ committedChangeEvents' = Append(committedChangeEvents, event)
            /\ analyticsBlobs' = ingested.blobs
            /\ analyticsBlobChunks' = ingested.chunkRows
            /\ controlRuntime' =
                 [controlRuntime EXCEPT ![payload.controlId] =
                    patchedRuntime(runtime, payload, newDiscreteState, tsMs)]
            /\ UNCHANGED <<splitVars, libVars, now, config, controls>>

SetConfig == \E args \in SetConfigRequests : setConfig(args)
CreateControl == \E args \in CreateControlRequests : createControl(args)
SetActiveModel == \E args \in SetActiveModelRequests : setActiveModel(args)
SetControlValue ==
  \E payload \in SetControlValueRequests :
    /\ payload.isCommitted => Len(committedChangeEvents) < MaxEvents
    /\ setControlValue(payload)

\* time passes between two mutations
AdvanceClock ==
  /\ now < DashStartMs + MaxTicks * DashTickMs
  /\ now' = now + DashTickMs
  /\ UNCHANGED <<splitVars, libVars, tables>>

Init == SplitIdle /\ DashInit /\ LibIdle

Next ==
  SetConfig \/ CreateControl \/ SetActiveModel \/ SetControlValue
    \/ AdvanceClock

Spec == Init /\ [][Next]_vars

(***************************************************************************)
(* Calls of the index functions of analytics/denseArray.  A call names the *)
(* function, its arguments and the N of the array the caller indexes.      *)
(* The arguments reach one step past each end of their valid range.        *)
(***************************************************************************)
MaxNumStates == 10

IndexStates(N) == (0 - 1)..N
IndexClocks == (0 - 1)..NUM_CLOCKS
IndexBuckets ==
  {MIN_BUCKET_ID - 1, MIN_BUCKET_ID, MIN_BUCKET_ID + 1, MAX_BUCKET_ID,
   MAX_BUCKET_ID + 1}

IndexInit ==
  /\ SplitIdle
  /\ DashInit
  /\ \E N \in 2..MaxNumStates : \E f \in IndexStates(N), c \in IndexClocks,
                                     b \in IndexBuckets :
       \/ libCall = [fn |-> "holdIndex", args |-> <<f, c, b>>,
                     numStates |-> N]
       \/ \E t \in IndexStates(N) :
            \/ libCall = [fn |-> "transGroupIndex", args |-> <<f, t, N>>,
                          numStates |-> N]
            \/ libCall = [fn |-> "transIndex", args |-> <<f, t, c, b, N>>,
                          numStates |-> N]
  /\ libResult = <<>>

HoldIndex ==
  /\ libCall.fn = "holdIndex"
  /\ libResult = <<>>
  /\ libResult' = <<holdIndex(libCall.args[1], libCall.args[2],
                              libCall.args[3])>>
  /\ UNCHANGED <<libCall, splitVars, dashVars>>

TransGroupIndex ==
  /\ libCall.fn = "transGroupIndex"
  /\ libResult = <<>>
  /\ libResult' = <<transGroupIndex(libCall.args[1], libCall.args[2],
                                    libCall.args[3])>>
  /\ UNCHANGED <<libCall, splitVars, dashVars>>

TransIndex ==
  /\ libCall.fn = "transIndex"
  /\ libResult = <<>>
  /\ libResult' = <<transIndex(libCall.args[1], libCall.args[2],
                               libCall.args[3], libCall.args[4],
                               libCall.args[5])>>
  /\ UNCHANGED <<libCall, splitVars, dashVars>>

IndexNext == HoldIndex \/ TransGroupIndex \/ TransIndex

IndexSpec == IndexInit /\ [][IndexNext]_vars

(***************************************************************************)
(* Calls of the bucket functions of packages/core/src/time.  A bucket that *)
(* dayAndMinutesToBucketId returns is passed on to bucketIdToDayAndMinutes;*)
(* the call keeps the day and minute it came from in the field "of".       *)
(***************************************************************************)
HalfWeek == BUCKETS_PER_WEEK \div 2

\* first arguments of cyclicDistance: with every second argument they give
\* every difference from -2015 to 2015
DistanceOrigins ==
  {MIN_BUCKET_ID - 1, MIN_BUCKET_ID, HalfWeek, MAX_BUCKET_ID,
   MAX_BUCKET_ID + 1}

\* the value a map holds for a day of the week
AggValue(kind, dayOfWeek) ==
  CASE kind = "sum" -> 2 ^ dayOfWeek
    [] kind = "zeros" -> 0
    [] kind = "concat" -> <<dayOfWeek>>

\* Map<number, T> inputs: any days at the first day position, the first
\* and last day at the last one, and possibly the key 2016 past the week
AggMaps(kind) ==
  {[b \in {k * BUCKETS_PER_DAY : k \in first}
            \cup {k * BUCKETS_PER_DAY + BUCKETS_PER_DAY - 1 : k \in last}
            \cup past |->
      AggValue(kind, b \div BUCKETS_PER_DAY)] :
     first \in SUBSET (0..6), last \in SUBSET {0, 6},
     past \in {{}, {BUCKETS_PER_WEEK}}}

TimeInit ==
  /\ SplitIdle
  /\ DashInit
  /\ \/ \E a \in DistanceOrigins,
           b \in (MIN_BUCKET_ID - 1)..(MAX_BUCKET_ID + 1) :
          libCall = [fn |-> "cyclicDistance", args |-> <<a, b>>,
                     of |-> <<>>]
     \/ \E d \in (0 - 1)..7, m \in (0 - 1)..1440 :
          libCall = [fn |-> "dayAndMinutesToBucketId", args |-> <<d, m>>,
                     of |-> <<>>]
     \/ \E b \in {MIN_BUCKET_ID - 1, MAX_BUCKET_ID + 1} :
          libCall = [fn |-> "bucketIdToDayAndMinutes", args |-> <<b>>,
                     of |-> <<>>]
     \/ \E kind \in {"sum", "zeros"} : \E m \in AggMaps(kind) :
          libCall = [fn |-> "aggregateTimeOfDay", args |-> <<m, "sum", 0>>,
                     of |-> <<>>]
     \/ \E m \in AggMaps("concat") :
          libCall = [fn |-> "aggregateTimeOfDay",
                     args |-> <<m, "concat", <<>>>>, of |-> <<>>]
  /\ libResult = <<>>

CyclicDistance ==
  /\ libCall.fn = "cyclicDistance"
  /\ libResult = <<>>
  /\ libResult' = <<cyclicDistance(libCall.args[1], libCall.args[2])>>
  /\ UNCHANGED <<libCall, splitVars, dashVars>>

DayAndMinutesToBucketId ==
  /\ libCall.fn = "dayAndMinutesToBucketId"
  /\ libResult = <<>>
  /\ libResult' = <<dayAndMinutesToBucketId(libCall.args[1],
                                            libCall.args[2])>>
  /\ UNCHANGED <<libCall, splitVars, dashVars>>

\* the caller hands the bucket it got to bucketIdToDayAndMinutes
PassBucketOn ==
  /\ libCall.fn = "dayAndMinutesToBucketId"
  /\ libResult # <<>>
  /\ libResult[1] # Thrown
  /\ libCall' = [fn |-> "bucketIdToDayAndMinutes", args |-> libResult,
                 of |-> libCall.args]
  /\ libResult' = <<>>
  /\ UNCHANGED <<splitVars, dashVars>>

BucketIdToDayAndMinutes ==
  /\ libCall.fn = "bucketIdToDayAndMinutes"
  /\ libResult = <<>>
  /\ libResult' = <<bucketIdToDayAndMinutes(libCall.args[1])>>
  /\ UNCHANGED <<libCall, splitVars, dashVars>>

AggregateTimeOfDay ==
  /\ libCall.fn = "aggregateTimeOfDay"
  /\ libResult = <<>>
  /\ libResult' = <<aggregateTimeOfDay(libCall.args[1], libCall.args[2],
                                       libCall.args[3])>>
  /\ UNCHANGED <<libCall, splitVars, dashVars>>

TimeNext ==
  CyclicDistance \/ DayAndMinutesToBucketId \/ PassBucketOn
    \/ BucketIdToDayAndMinutes \/ AggregateTimeOfDay

TimeSpec == TimeInit /\ [][TimeNext]_vars

(***************************************************************************)
(* Calls of mapTimestampToBucket.  The instants are the hours of a Monday  *)
(* and of the Sunday that ends its week, and the millisecond before each.  *)
(***************************************************************************)
MapperInstants ==
  {d * msPerDay + h * 3600000 - e : d \in {4, 10}, h \in 0..23, e \in 0..1}

\* locations at and next to the poles, at the equator and between, at and
\* between the ends of the longitude range
SolarConfigs ==
  {[timezone |-> "UTC", latitude |-> lat, longitude |-> lon,
    season |-> season, sun |-> "temperate"] :
     lat \in {0 - 90, 0 - 89, 0, 51, 89, 90},
     lon \in {0 - 180, 0 - 74, 0, 73, 180},
     season \in {"rising", "falling"}}

ScenarioConfigs ==
  {TemperateConfig, KolkataConfig, SpringForwardConfig, FallBackConfig,
   RisingConfig, FallingConfig, PoleConfig, ShortDaysConfig, OnsetConfig,
   EndingConfig}

\* what the provider may report around an instant: the previous day's
\* sunset, the day's sunrise and sunset and the next day's sunrise, in this
\* order in time, each at one of these offsets from the instant
ReportOffsets ==
  {0 - 86400000, 0 - 43200000, 0 - 600000, 0 - 60000, 360000, 420000,
   43200000, 86400000 + 300000, 86400000 + 480000}

ReportedConfigs(tsMs) ==
  {[timezone |-> "UTC", latitude |-> 70, longitude |-> 0,
    season |-> "falling", sun |-> "reported",
    reportDay |-> utcDayNumber(tsMs),
    reports |-> [rel \in (0 - 1)..1 |->
                   CASE rel = 0 - 1 -> [sunrise |-> Undefined,
                                        sunset |-> tsMs + prevSunset]
                     [] rel = 0 -> [sunrise |-> tsMs + sunrise,
                                    sunset |-> tsMs + sunset]
                     [] rel = 1 -> [sunrise |-> tsMs + nextSunrise,
                                    sunset |-> Undefined]]] :
     prevSunset \in ReportOffsets, sunrise \in ReportOffsets,
     sunset \in ReportOffsets, nextSunrise \in ReportOffsets}

MapperInit ==
  /\ SplitIdle
  /\ DashInit
  /\ \E tsMs \in MapperInstants :
       \/ \E clockId \in {"meanSolar", "apparentSolar"},
             cfg \in SolarConfigs :
            libCall = [fn |-> "mapTimestampToBucket",
                       args |-> <<clockId, tsMs, cfg>>]
       \/ \E k \in 1..Len(ALL_CLOCKS), cfg \in ScenarioConfigs :
            libCall = [fn |-> "mapTimestampToBucket",
                       args |-> <<ALL_CLOCKS[k], tsMs, cfg>>]
       \/ \E cfg \in ReportedConfigs(tsMs) :
            /\ tsMs = 4 * msPerDay + 3600000
            /\ cfg.reports[0 - 1].sunset < cfg.reports[0].sunrise
            /\ cfg.reports[0].sunrise < cfg.reports[0].sunset
            /\ cfg.reports[0].sunset < cfg.reports[1].sunrise
            /\ libCall = [fn |-> "mapTimestampToBucket",
                          args |-> <<"unequalHours", tsMs, cfg>>]
  /\ libResult = <<>>

MapTimestampToBucket ==
  /\ libCall.fn = "mapTimestampToBucket"
  /\ libResult = <<>>
  /\ libResult' = <<mapTimestampToBucket(libCall.args[1], libCall.args[2],
                                         libCall.args[3])>>
  /\ UNCHANGED <<libCall, splitVars, dashVars>>

MapperSpec == MapperInit /\ [][MapTimestampToBucket]_vars


(***************************************************************************)
(* Properties of splitHoldInterval (SplitSpec)                             *)
(***************************************************************************)
Instants(p) == p.t0Ms..(p.t1Ms - 1)

\* the instants of the interval at which the clock is defined, and those
\* the clock maps to bucket B, by enumeration
DefinedInstants(p) ==
  {t \in Instants(p) : mapTimestampToBucket(p.clockId, t, p.config) # Undefined}
InstantsInBucket(p, B) ==
  {t \in Instants(p) : mapTimestampToBucket(p.clockId, t, p.config) = B}
BucketsOf(p) ==
  {mapTimestampToBucket(p.clockId, t, p.config) : t \in DefinedInstants(p)}

SplitReturned == splitPc = "done" /\ params.t0Ms < params.t1Ms
EveryInstantDefined == DefinedInstants(params) = Instants(params)

\* C1: when the clock is defined at every instant of [t0Ms, t1Ms), the
\* values returned by splitHoldInterval sum to exactly t1Ms - t0Ms.
C1_SumEqualsElapsed ==
  (SplitReturned /\ EveryInstantDefined)
    => MapSum(splitResult) = params.t1Ms - params.t0Ms

C1_Witness ==
  /\ SplitReturned
  /\ EveryInstantDefined
  /\ Cardinality(DOMAIN splitResult) >= 2
  /\ MapSum(splitResult) = params.t1Ms - params.t0Ms

\* C2: splitHoldInterval terminates on every input, also when the clock
\* becomes undefined after having been defined.  currentTime and result are
\* the only state of the loop and its body is deterministic, so the loop
\* terminates only if every iteration that does not leave the loop moves
\* currentTime forward.
C2_EveryIterationAdvances ==
  [][(splitPc = "loop" /\ splitPc' = "loop")
       => splitCurrentTime' > splitCurrentTime]_vars

\* C3: the values returned sum to exactly the number of milliseconds of
\* [t0Ms, t1Ms) at which the clock is defined.
C3_SumEqualsDefinedTime ==
  SplitReturned => MapSum(splitResult) = Cardinality(DefinedInstants(params))

C5_AllocationsBounded ==
  params.t0Ms < params.t1Ms
    => /\ \A B \in DOMAIN splitResult : splitResult[B] > 0
       /\ MapSum(splitResult) <= params.t1Ms - params.t0Ms
       /\ MapSum(splitResult)
            <= Min(splitCurrentTime, params.t1Ms) - params.t0Ms

C5_Witness ==
  /\ SplitReturned
  /\ params.clockId = "unequalHours"
  /\ Cardinality(DOMAIN splitResult) >= 8
  /\ \A B \in DOMAIN splitResult : splitResult[B] > 0


(***************************************************************************)
(* Properties of the mutations (Spec)                                      *)
(***************************************************************************)
\* the array stored for a key, read back the way ingestion reads it; all
\* zeros when nothing is stored
StoredArray(chunkRows, key) ==
  LET loaded == loadChunks(chunkRows, key)
  IN IF loaded.found THEN assembleFromChunks(loaded.chunks)
     ELSE [length |-> 0, nz |-> EmptyMap]

KeysIn(rows) == {BlobKey(r.controlId, r.modelId, r.windowId) : r \in rows}

\* the stored value of a cell before and after the step
CellBefore(key, i) == ArrGet(StoredArray(analyticsBlobChunks, key), i)
CellAfter(key, i) == ArrGet(StoredArray(analyticsBlobChunks', key), i)

\* the cells of a key's array that are non-zero before or after the step
TouchedCells(key) ==
  (DOMAIN StoredArray(analyticsBlobChunks, key).nz)
    \cup (DOMAIN StoredArray(analyticsBlobChunks', key).nz)

AllCellsUnchanged ==
  \A key \in KeysIn(analyticsBlobChunks) \cup KeysIn(analyticsBlobChunks') :
    \A i \in TouchedCells(key) : CellAfter(key, i) = CellBefore(key, i)

\* the step commits an event: setControlValue with isCommitted = true
CommitStep ==
  Len(committedChangeEvents') = Len(committedChangeEvents) + 1
NewEvent == committedChangeEvents'[Len(committedChangeEvents')]
PrevRuntime == controlRuntime[NewEvent.controlId]
EventKey(e) == BlobKey(e.controlId, e.activeModelId, "default")
NumStatesOf(e) == getNumStates(controls[e.controlId])
ClockConfigNow == (CHOOSE c \in config : TRUE).location

\* the integrity checks as the event and the runtime row can fail them
PassesIntegrity(e, rt) == rt.lastCommittedAtMs < e.tsMs /\ e.activeModelId # ""

\* layout of the dense array
IsHoldingCell(i, N) == i < N * VALUES_PER_BUCKET_GROUP
ClockOfCell(i) == (i % VALUES_PER_BUCKET_GROUP) \div BUCKETS_PER_WEEK
BucketOfCell(i) == i % BUCKETS_PER_WEEK
HoldingCell(s, c, b) == s * VALUES_PER_BUCKET_GROUP + c * BUCKETS_PER_WEEK + b
TransitionCell(from, to, c, b, N) ==
  N * VALUES_PER_BUCKET_GROUP
    + (from * (N - 1) + (IF to < from THEN to ELSE to - 1))
        * VALUES_PER_BUCKET_GROUP
    + c * BUCKETS_PER_WEEK + b

\* what closing the interval [lastCommittedAtMs, tsMs) owes the holding-time
\* cells of the previous state: cell -> milliseconds
ExpectedHolding(e, rt, clockConfig) ==
  LET allocs == [k \in 1..Len(ALL_CLOCKS) |->
                   splitHoldInterval(rt.lastCommittedAtMs, e.tsMs,
                                     ALL_CLOCKS[k], clockConfig)]
  IN [i \in UNION {{HoldingCell(rt.lastCommittedDiscreteState, k - 1, b) :
                      b \in DOMAIN allocs[k]} : k \in 1..Len(ALL_CLOCKS)} |->
        allocs[ClockOfCell(i) + 1][BucketOfCell(i)]]

DefinedClocksAt(tsMs, clockConfig) ==
  {k \in 1..Len(ALL_CLOCKS) :
     mapTimestampToBucket(ALL_CLOCKS[k], tsMs, clockConfig) # Undefined}

\* the transition cell of clock k (1..5) for the event
EventTransitionCell(e, k, clockConfig, N) ==
  TransitionCell(e.fromDiscreteState, e.toDiscreteState, k - 1,
                 mapTimestampToBucket(ALL_CLOCKS[k], e.tsMs, clockConfig), N)

\* the transition cells of clock k whose stored value the step changes
ChangedTransitionCells(key, k, N) ==
  {i \in TouchedCells(key) :
     /\ ~IsHoldingCell(i, N)
     /\ ClockOfCell(i) = k - 1
     /\ CellAfter(key, i) # CellBefore(key, i)}

HoldingAdded(e, rt, clockConfig) ==
  LET expected == ExpectedHolding(e, rt, clockConfig)
  IN \A i \in TouchedCells(EventKey(e)) \cup DOMAIN expected :
       IsHoldingCell(i, NumStatesOf(e))
         => CellAfter(EventKey(e), i)
              = CellBefore(EventKey(e), i) + MapGet(expected, i)

\* C6: for a committed event that passes the integrity checks, the step adds
\* to the holding-time cells of the previous committed state, for each of the
\* five clocks, exactly the allocations of splitHoldInterval over
\* [lastCommittedAtMs, tsMs), stores them, and changes no other holding-time
\* cell.
C6_HoldingTimeAdded ==
  [][(CommitStep /\ config # {} /\ PassesIntegrity(NewEvent, PrevRuntime))
       => HoldingAdded(NewEvent, PrevRuntime, ClockConfigNow)]_vars

FromOfCell(i, N) == ((i \div VALUES_PER_BUCKET_GROUP) - N) \div (N - 1)
ToOfCell(i, N) ==
  LET offset == ((i \div VALUES_PER_BUCKET_GROUP) - N) % (N - 1)
  IN IF offset < FromOfCell(i, N) THEN offset ELSE offset + 1

\* the committed event of this step is the user-initiated event a transition
\* cell stands for: same (control, model), same (from, to), and the cell's
\* clock maps the commit instant to the cell's bucket
RecordedFor(e, key, i, N) ==
  /\ e.initiator = "user"
  /\ EventKey(e) = key
  /\ e.fromDiscreteState = FromOfCell(i, N)
  /\ e.toDiscreteState = ToOfCell(i, N)
  /\ config # {}
  /\ mapTimestampToBucket(ALL_CLOCKS[ClockOfCell(i) + 1], e.tsMs,
                          ClockConfigNow) = BucketOfCell(i)

\* every transition cell grows by one, and only for the event it stands for
TransitionCellsCountUserEvents ==
  \/ analyticsBlobChunks' = analyticsBlobChunks
  \/ \A key \in KeysIn(analyticsBlobChunks) \cup KeysIn(analyticsBlobChunks') :
       LET N == getNumStates(controls[key.controlId])
       IN \A i \in TouchedCells(key) :
            ~IsHoldingCell(i, N)
              => \/ CellAfter(key, i) = CellBefore(key, i)
                 \/ /\ CellAfter(key, i) = CellBefore(key, i) + 1
                    /\ CommitStep
                    /\ RecordedFor(NewEvent, key, i, N)

NoTransitionCellChanges ==
  \/ analyticsBlobChunks' = analyticsBlobChunks
  \/ \A key \in KeysIn(analyticsBlobChunks) \cup KeysIn(analyticsBlobChunks') :
       \A i \in TouchedCells(key) :
         ~IsHoldingCell(i, getNumStates(controls[key.controlId]))
           => CellAfter(key, i) = CellBefore(key, i)

\* C8: a model-initiated committed event changes no transition cell: over any
\* sequence of events a transition cell grows only by one per user-initiated
\* event recorded for its (control, model, from, to, clock, bucket), while
\* the holding time of the interval a model-initiated event closes is still
\* added.
C8_ModelInitiatedCountsNoTransition ==
  [][/\ TransitionCellsCountUserEvents
     /\ (CommitStep /\ NewEvent.initiator = "model")
          => /\ NoTransitionCellChanges
             /\ (config # {} /\ PassesIntegrity(NewEvent, PrevRuntime))
                  => HoldingAdded(NewEvent, PrevRuntime, ClockConfigNow)]_vars

C8_Witness ==
  /\ Len(committedChangeEvents) = 2
  /\ config # {}
  /\ LET user == committedChangeEvents[1]
         model == committedChangeEvents[2]
         N == NumStatesOf(model)
         stored == StoredArray(analyticsBlobChunks, EventKey(model))
     IN /\ user.initiator = "user" /\ model.initiator = "model"
        /\ EventKey(user) = EventKey(model)
        /\ model.fromDiscreteState # model.toDiscreteState
        /\ \E i \in DOMAIN stored.nz :
             /\ IsHoldingCell(i, N)
             /\ i \div VALUES_PER_BUCKET_GROUP = model.fromDiscreteState
        /\ \E i \in DOMAIN stored.nz : ~IsHoldingCell(i, N)
        /\ \A i \in DOMAIN stored.nz :
             ~IsHoldingCell(i, N)
               => /\ stored.nz[i] = 1
                  /\ FromOfCell(i, N) = user.fromDiscreteState
                  /\ ToOfCell(i, N) = user.toDiscreteState

\* transition indexing rejects a self-transition: the one way ingestion
\* fails after it has started
IngestionFails(e) ==
  e.initiator = "user" /\ e.fromDiscreteState = e.toDiscreteState

ExpectedTransitionCells(e, clockConfig, N) ==
  IF e.initiator = "user" /\ e.fromDiscreteState # e.toDiscreteState
    THEN {EventTransitionCell(e, k, clockConfig, N) :
            k \in DefinedClocksAt(e.tsMs, clockConfig)}
    ELSE {}

FullyApplied(e, rt, clockConfig) ==
  LET holding == ExpectedHolding(e, rt, clockConfig)
      counted == ExpectedTransitionCells(e, clockConfig, NumStatesOf(e))
  IN /\ \A i \in TouchedCells(EventKey(e)) \cup DOMAIN holding \cup counted :
          CellAfter(EventKey(e), i)
            = CellBefore(EventKey(e), i) + MapGet(holding, i)
                + (IF i \in counted THEN 1 ELSE 0)
     /\ \A key \in (KeysIn(analyticsBlobChunks)
                      \cup KeysIn(analyticsBlobChunks')) \ {EventKey(e)} :
          \A i \in TouchedCells(key) : CellAfter(key, i) = CellBefore(key, i)

OnlyCurrentValueChanged(c) ==
  /\ DOMAIN controlRuntime' = DOMAIN controlRuntime
  /\ \A d \in DOMAIN controlRuntime :
       IF d = c
         THEN [controlRuntime'[d] EXCEPT
                 !.currentDiscreteState = controlRuntime[d].currentDiscreteState,
                 !.currentValue01 = controlRuntime[d].currentValue01,
                 !.lastUpdatedAtMs = controlRuntime[d].lastUpdatedAtMs]
                = controlRuntime[d]
         ELSE controlRuntime'[d] = controlRuntime[d]

\* C10: a setControlValue call with isCommitted = false changes only
\* currentDiscreteState, currentValue01 and lastUpdatedAtMs of its control:
\* no event row is inserted, lastCommittedAtMs and lastCommittedDiscreteState
\* stay, and no analytics row changes.
C10_UncommittedChangesCurrentValueOnly ==
  [][\/ UNCHANGED tables
     \/ \A payload \in SetControlValueRequests :
          (~payload.isCommitted /\ setControlValue(payload))
            => /\ OnlyCurrentValueChanged(payload.controlId)
               /\ UNCHANGED <<committedChangeEvents, analyticsBlobs,
                              analyticsBlobChunks, config, controls>>]_vars

C10_Witness ==
  /\ committedChangeEvents = <<>>
  /\ analyticsBlobChunks = {}
  /\ \E c \in DOMAIN controlRuntime :
       /\ controlRuntime[c].kind = "slider"
       /\ controlRuntime[c].currentValue01 = SliderOne \div 4
       /\ controlRuntime[c].currentDiscreteState
            # controlRuntime[c].lastCommittedDiscreteState
       /\ controlRuntime[c].lastUpdatedAtMs
            > controlRuntime[c].lastCommittedAtMs

(***************************************************************************)
(* Length of the stored arrays                                             *)
(***************************************************************************)
\* the stored array of a key has the length of its control's N and holds
\* no value at or beyond it
HasExactLength(key) ==
  LET data == StoredArray(analyticsBlobChunks, key)
  IN /\ key.controlId \in DOMAIN controls
     /\ data.length = getArraySize(getNumStates(controls[key.controlId]))
     /\ \A i \in DOMAIN data.nz : i >= 0 /\ i < data.length

\* C11: after any sequence of createControl, setActiveModel and
\* setControlValue calls, every stored analytics array of a control with N
\* states has length exactly N * N * 10080: no write of ingestion lands at
\* or beyond that length (which would lengthen the array) and none shortens
\* it.
C11_StoredLengthExact ==
  \A key \in KeysIn(analyticsBlobChunks) : HasExactLength(key)

\* a slider's array (N = 6, four chunks) holds a count in a chunk after the
\* first, written by ingestion, and still has its exact length
C11_Witness ==
  \E key \in KeysIn(analyticsBlobChunks) :
    /\ HasExactLength(key)
    /\ controls[key.controlId].kind = "slider"
    /\ \E i \in DOMAIN StoredArray(analyticsBlobChunks, key).nz :
         /\ i >= CHUNK_SIZE
         /\ ArrGet(StoredArray(analyticsBlobChunks, key), i) > 0

(***************************************************************************)
(* Properties of the index functions (IndexSpec)                           *)
(***************************************************************************)
LibReturned == libResult # <<>>
LibValue == libResult[1]

ValidState(s, N) == s >= 0 /\ s <= N - 1
ValidClock(c) == c >= 0 /\ c <= NUM_CLOCKS - 1
ValidBucket(b) == b >= MIN_BUCKET_ID /\ b <= MAX_BUCKET_ID

\* the call's arguments are all in range (and from differs from to)
ValidIndexCall(call) ==
  CASE call.fn = "holdIndex" ->
         /\ ValidState(call.args[1], call.numStates)
         /\ ValidClock(call.args[2])
         /\ ValidBucket(call.args[3])
    [] call.fn = "transGroupIndex" ->
         /\ ValidState(call.args[1], call.numStates)
         /\ ValidState(call.args[2], call.numStates)
         /\ call.args[1] # call.args[2]
    [] call.fn = "transIndex" ->
         /\ ValidState(call.args[1], call.numStates)
         /\ ValidState(call.args[2], call.numStates)
         /\ call.args[1] # call.args[2]
         /\ ValidClock(call.args[3])
         /\ ValidBucket(call.args[4])

\* the cell an index call asks for
CellOfCall(call) ==
  IF call.fn = "holdIndex"
    THEN [kind |-> "hold", states |-> <<call.args[1]>>,
          clock |-> call.args[2], bucket |-> call.args[3]]
    ELSE [kind |-> "trans", states |-> <<call.args[1], call.args[2]>>,
          clock |-> call.args[3], bucket |-> call.args[4]]

\* the cell the layout puts at a position of an array for N states
CellAt(i, N) ==
  IF IsHoldingCell(i, N)
    THEN [kind |-> "hold", states |-> <<i \div VALUES_PER_BUCKET_GROUP>>,
          clock |-> ClockOfCell(i), bucket |-> BucketOfCell(i)]
    ELSE [kind |-> "trans", states |-> <<FromOfCell(i, N), ToOfCell(i, N)>>,
          clock |-> ClockOfCell(i), bucket |-> BucketOfCell(i)]

\* C12: for every N in [2,10] the positions of holdIndex over the valid
\* (state, clock, bucket) and of transIndex over the valid (from, to, clock,
\* bucket) with from # to are pairwise distinct and together exactly
\* [0, N*N*10080 - 1]: a position lies in its section (holding-time
\* positions in [0, N*10080 - 1], transition positions after them), the
\* position alone determines the cell it was computed for, so no two cells
\* share one, and the N*5*2016 + N*(N-1)*5*2016 cells are as many as the
\* positions.
C12_PositionsPartitionArray ==
  (/\ LibReturned
   /\ libCall.fn \in {"holdIndex", "transIndex"}
   /\ ValidIndexCall(libCall))
    => LET N == libCall.numStates
       IN /\ LibValue >= 0
          /\ LibValue <= getArraySize(N) - 1
          /\ IsHoldingCell(LibValue, N) <=> libCall.fn = "holdIndex"
          /\ CellAt(LibValue, N) = CellOfCall(libCall)
          /\ N * NUM_CLOCKS * BUCKETS_PER_WEEK
               + N * (N - 1) * NUM_CLOCKS * BUCKETS_PER_WEEK
             = getArraySize(N)

\* the last cell of the largest array: the transition 9 -> 8 on the last
\* clock in the last bucket lands on the last position
C12_Witness ==
  /\ LibReturned
  /\ libCall.fn = "transIndex"
  /\ libCall.numStates = MaxNumStates
  /\ libCall.args = <<MaxNumStates - 1, MaxNumStates - 2, NUM_CLOCKS - 1,
                      MAX_BUCKET_ID, MaxNumStates>>
  /\ LibValue = getArraySize(MaxNumStates) - 1

\* the ordered pairs of distinct states of a control with N states that
\* come before (from, to): smaller from, or the same from and smaller to
PairsBefore(from, to, N) ==
  {p \in (0..(N - 1)) \X (0..(N - 1)) :
     /\ p[1] # p[2]
     /\ p[1] < from \/ (p[1] = from /\ p[2] < to)}

\* C13: for every N >= 2, transGroupIndex is a bijection from the ordered
\* pairs (from, to) of distinct states in [0, N-1] onto [0, N*(N-1) - 1],
\* ordered by from ascending and then to ascending: the index of a pair is
\* the number of pairs before it.  For N = 6, (0,1) maps to 0 and (5,4) to
\* 29.
C13_GroupIndexIsRankOfPair ==
  (/\ LibReturned
   /\ libCall.fn = "transGroupIndex"
   /\ ValidIndexCall(libCall))
    => LET from == libCall.args[1]
           to == libCall.args[2]
           N == libCall.args[3]
       IN /\ LibValue = Cardinality(PairsBefore(from, to, N))
          /\ LibValue >= 0
          /\ LibValue <= N * (N - 1) - 1
          /\ (N = 6 /\ from = 0 /\ to = 1) => LibValue = 0
          /\ (N = 6 /\ from = 5 /\ to = 4) => LibValue = 29

\* the last pair of a slider's six states has the last of its thirty groups
C13_Witness ==
  /\ LibReturned
  /\ libCall.fn = "transGroupIndex"
  /\ libCall.args = <<5, 4, 6>>
  /\ LibValue = 29

\* C14: every index function fails fast on out-of-range input instead of
\* returning a position: holdIndex, transGroupIndex and transIndex fail when
\* a state is outside [0, N-1], a clock outside [0,4], a bucket outside
\* [0,2015] or from equals to; none returns the index of another cell.
C14_OutOfRangeFailsFast ==
  (LibReturned /\ libCall.fn \in {"holdIndex", "transGroupIndex", "transIndex"}
               /\ ~ValidIndexCall(libCall))
    => LibValue = Thrown

(***************************************************************************)
(* Properties of the bucket functions (TimeSpec)                           *)
(***************************************************************************)
ValidDistanceCall ==
  /\ libCall.fn = "cyclicDistance"
  /\ ValidBucket(libCall.args[1])
  /\ ValidBucket(libCall.args[2])

\* C15: for all valid buckets a and b that lie exactly half a cycle (1008
\* steps) apart, cyclicDistance(a, b) returns the forward value +1008 and
\* never -1008.
C15_HalfCycleIsForward ==
  (/\ LibReturned
   /\ ValidDistanceCall
   /\ Abs(libCall.args[2] - libCall.args[1]) = HalfWeek)
    => LibValue = <<HalfWeek>>

\* C16: for all a, b in [0,2015], cyclicDistance(a, b) is an integer d in
\* [-1008, 1008] with (a + d) mod 2016 = b, and no walk of fewer than |d|
\* steps in either direction leads from a to b; cyclicDistance(x, x) = 0.
C16_ShortestSignedDistance ==
  (LibReturned /\ ValidDistanceCall)
    => /\ LibValue # <<>>
       /\ LET a == libCall.args[1]
              b == libCall.args[2]
              d == LibValue[1]
          IN /\ d >= 0 - HalfWeek
             /\ d <= HalfWeek
             /\ (a + d) % BUCKETS_PER_WEEK = b
             /\ \A e \in (1 - Abs(d))..(Abs(d) - 1) :
                  (a + e) % BUCKETS_PER_WEEK # b
             /\ a = b => d = 0

\* a distance across the week wrap: from the last bucket to a bucket of the
\* first half of the week the shortest walk goes forward through bucket 0
C16_Witness ==
  /\ LibReturned
  /\ ValidDistanceCall
  /\ libCall.args = <<MAX_BUCKET_ID, HalfWeek - 2>>
  /\ LibValue = <<HalfWeek - 1>>

\* C17: for all integers dayOfWeek in [0,6] and minuteOfDay in [0,1439],
\* dayAndMinutesToBucketId returns a bucket in [0,2015], and
\* bucketIdToDayAndMinutes of that bucket returns the same dayOfWeek and a
\* 5-minute range with startMinute <= minuteOfDay < endMinute.
C17_BucketRoundTrip ==
  /\ (/\ LibReturned
      /\ libCall.fn = "dayAndMinutesToBucketId"
      /\ libCall.args[1] \in 0..6
      /\ libCall.args[2] \in 0..1439)
       => (LibValue >= MIN_BUCKET_ID /\ LibValue <= MAX_BUCKET_ID)
  /\ (/\ LibReturned
      /\ libCall.fn = "bucketIdToDayAndMinutes"
      /\ libCall.of # <<>>)
       => /\ LibValue # <<>>
          /\ LibValue[1].dayOfWeek = libCall.of[1]
          /\ LibValue[1].startMinute <= libCall.of[2]
          /\ libCall.of[2] < LibValue[1].endMinute
          /\ LibValue[1].endMinute - LibValue[1].startMinute = BUCKET_MINUTES

\* the last minute of the week went to the last bucket and came back as
\* Sunday 23:55-24:00
C17_Witness ==
  /\ LibReturned
  /\ libCall.fn = "bucketIdToDayAndMinutes"
  /\ libCall.of = <<6, 1439>>
  /\ libCall.args = <<MAX_BUCKET_ID>>
  /\ LibValue = <<[dayOfWeek |-> 6, startMinute |-> 1435,
                   endMinute |-> 1440]>>

\* the days of the week on which a map holds a value for a day position
PresentDays(buckets, dayBucket) ==
  {k \in 0..6 : k * BUCKETS_PER_DAY + dayBucket \in DOMAIN buckets}

\* the present values of a day position combined in the order of the days
CombinedValue(buckets, add, dayBucket) ==
  LET present == PresentDays(buckets, dayBucket)
  IN IF add = "sum"
       THEN SumOver(buckets,
                    {k * BUCKETS_PER_DAY + dayBucket : k \in present})
       ELSE [i \in 1..Cardinality(present) |->
               CHOOSE k \in present :
                 Cardinality({j \in present : j < k}) = i - 1]

\* C18: aggregateTimeOfDay returns an entry for day position d in [0,287]
\* if and only if at least one of the week-buckets d + 288*k (k = 0..6) is
\* present in the input, and the entry is the combination of exactly the
\* present values; an absent day position gets no entry, not a zero entry.
C18_AggregatesPresentValuesOnly ==
  (LibReturned /\ libCall.fn = "aggregateTimeOfDay")
    => /\ DOMAIN LibValue \subseteq 0..(BUCKETS_PER_DAY - 1)
       /\ \A d \in 0..(BUCKETS_PER_DAY - 1) :
            /\ d \in DOMAIN LibValue
                 <=> PresentDays(libCall.args[1], d) # {}
            /\ d \in DOMAIN LibValue
                 => LibValue[d] = CombinedValue(libCall.args[1],
                                                libCall.args[2], d)

\* Monday, Wednesday and Sunday hold data for 00:00, nothing holds data for
\* 23:55, and a key past the week is present: the one entry is their sum
C18_Witness ==
  /\ LibReturned
  /\ libCall.fn = "aggregateTimeOfDay"
  /\ libCall.args[2] = "sum"
  /\ DOMAIN libCall.args[1]
       = {0, 2 * BUCKETS_PER_DAY, 6 * BUCKETS_PER_DAY, BUCKETS_PER_WEEK}
  /\ libCall.args[1][0] = 1
  /\ DOMAIN LibValue = {0}
  /\ LibValue[0] = 1 + 4 + 64

(***************************************************************************)
(* Properties of the clock mappers (MapperSpec)                            *)
(***************************************************************************)
MapperReturned == LibReturned /\ libCall.fn = "mapTimestampToBucket"

\* C19: the mean-solar and apparent-solar mappers return undefined if and
\* only if abs(latitude) is exactly 90; for every other latitude, every
\* longitude in [-180,180] and every instant they return a bucket in
\* [0,2015].
C19_SolarUndefinedOnlyAtPoles ==
  (MapperReturned /\ libCall.args[1] \in {"meanSolar", "apparentSolar"})
    => /\ LibValue = Undefined <=> Abs(libCall.args[3].latitude) = 90
       /\ Abs(libCall.args[3].latitude) # 90
            => (LibValue >= MIN_BUCKET_ID /\ LibValue <= MAX_BUCKET_ID)

\* one degree from the pole, at the date line, in the last millisecond of
\* the UTC week: the apparent-solar mapper still returns a bucket
C19_Witness ==
  /\ MapperReturned
  /\ libCall.args[1] = "apparentSolar"
  /\ libCall.args[2] = WeekStartMs - 1
  /\ libCall.args[3].latitude = 89
  /\ libCall.args[3].longitude = 180
  /\ LibValue >= MIN_BUCKET_ID
  /\ LibValue <= MAX_BUCKET_ID

\* C20: for every clock, every instant and every configuration with
\* latitude in [-90,90] and longitude in [-180,180], mapTimestampToBucket
\* returns an integer bucket in [0,2015] or undefined: it never throws on
\* an out-of-range day or minute, whatever sunrise and sunset instants the
\* provider reports for the surrounding days.
C20_MapperNeverThrows ==
  MapperReturned
    => \/ LibValue = Undefined
       \/ (LibValue >= MIN_BUCKET_ID /\ LibValue <= MAX_BUCKET_ID)

(***************************************************************************)
(* Properties of the unequal-hours mapper (MapperSpec)                     *)
(***************************************************************************)
UnequalReturned == MapperReturned /\ libCall.args[1] = "unequalHours"

\* what the provider reports around the instant of the call
SunOf(rel) ==
  getTimes(utcDayNumber(libCall.args[2]) + rel, libCall.args[3])

\* the day bucket of the returned week bucket, and of a minute of the day
DayBucketReturned == LibValue % BUCKETS_PER_DAY
DayBucketOfMinute(minute) == minute \div BUCKET_MINUTES

\* floor(720 * elapsed / duration): the minutes into a twelve-hour half
HalfDayMinute(elapsed, duration) == MulDivFloor(elapsed, 720, duration)

NightMapsToHalves(tsMs, startMs, endMs) ==
  /\ LibValue >= MIN_BUCKET_ID
  /\ LibValue <= MAX_BUCKET_ID
  /\ IF 2 * (tsMs - startMs) < endMs - startMs
       THEN /\ DayBucketReturned >= DayBucketOfMinute(1080)
            /\ DayBucketReturned < DayBucketOfMinute(1440)
       ELSE /\ DayBucketReturned >= DayBucketOfMinute(0)
            /\ DayBucketReturned < DayBucketOfMinute(360)

\* C21: under the unequal-hours clock an instant in the daytime
\* [sunrise, sunset) maps to the minute 360 + floor(720 * position in the
\* day), which lies in [360,1080), and an instant in a night
\* [sunset, next sunrise) maps into [1080,1440) in the first half of that
\* night and into [0,360) in the second half.
C21_DayAndNightMapToHalves ==
  (UnequalReturned /\ SunOf(0).sunrise # Undefined
     /\ SunOf(0).sunset # Undefined /\ SunOf(1).sunrise # Undefined)
    => LET tsMs == libCall.args[2]
           sunriseMs == SunOf(0).sunrise
           sunsetMs == SunOf(0).sunset
           nextSunriseMs == SunOf(1).sunrise
           prevSunsetMs == SunOf(0 - 1).sunset
       IN /\ (sunriseMs <= tsMs /\ tsMs < sunsetMs)
               => /\ LibValue >= MIN_BUCKET_ID
                  /\ LibValue <= MAX_BUCKET_ID
                  /\ DayBucketReturned
                       = DayBucketOfMinute(
                           360 + HalfDayMinute(tsMs - sunriseMs,
                                               sunsetMs - sunriseMs))
                  /\ DayBucketReturned >= DayBucketOfMinute(360)
                  /\ DayBucketReturned < DayBucketOfMinute(1080)
          /\ (sunsetMs <= tsMs /\ tsMs < nextSunriseMs
                /\ ~(sunriseMs <= tsMs /\ tsMs < sunsetMs))
               => NightMapsToHalves(tsMs, sunsetMs, nextSunriseMs)
          /\ (prevSunsetMs # Undefined /\ prevSunsetMs <= tsMs
                /\ tsMs < sunriseMs /\ tsMs < sunsetMs)
               => NightMapsToHalves(tsMs, prevSunsetMs, sunriseMs)

\* ten minutes after a sunset, six minutes before the next sunrise: the
\* second half of the night, five eighths through it, mapped to 01:30
C21_Witness ==
  /\ UnequalReturned
  /\ libCall.args[3].sun = "reported"
  /\ SunOf(0).sunrise = libCall.args[2] - 43200000
  /\ SunOf(0).sunset = libCall.args[2] - 600000
  /\ SunOf(1).sunrise = libCall.args[2] + 360000
  /\ DayBucketReturned = DayBucketOfMinute(90)

(***************************************************************************)
(* Calls of discretizeSlider: every sixty-fourth from one step below 0 to  *)
(* one step above 1, under each boundary policy.                           *)
(***************************************************************************)
SliderBoundaryPolicies ==
  {"roundDown", "roundUp", "roundNearest", "roundNearestTiesUp"}

SliderInit ==
  /\ SplitIdle
  /\ DashInit
  /\ \E value01 \in (0 - 1)..(SliderOne + 1),
        policy \in SliderBoundaryPolicies :
       libCall = [fn |-> "discretizeSlider", args |-> <<value01, policy>>]
  /\ libResult = <<>>

DiscretizeSlider ==
  /\ libCall.fn = "discretizeSlider"
  /\ libResult = <<>>
  /\ libResult' = <<discretizeSlider(libCall.args[1], libCall.args[2])>>
  /\ UNCHANGED <<libCall, splitVars, dashVars>>

SliderSpec == SliderInit /\ [][DiscretizeSlider]_vars

(***************************************************************************)
(* Properties of the slider discretization (SliderSpec)                    *)
(***************************************************************************)
SliderReturned == LibReturned /\ libCall.fn = "discretizeSlider"

\* 0.25, 0.5 and 0.75
SliderBoundaries == {SliderOne \div 4, SliderOne \div 2, (3 * SliderOne) \div 4}

\* the state below a boundary: 1, 2 and 3
StateBelow(boundary) == (4 * boundary) \div SliderOne

\* C22: at a value of exactly 0.25, 0.5 or 0.75 discretizeSlider returns
\* the lower adjacent state (1, 2, 3) under roundDown and roundNearest and
\* the higher one (2, 3, 4) under roundUp and roundNearestTiesUp; for every
\* other value in [0,1] the result lies in [0,5] and is the same under all
\* four policies.
C22_BoundaryFollowsPolicy ==
  (SliderReturned /\ libCall.args[1] >= 0 /\ libCall.args[1] <= SliderOne)
    => LET value01 == libCall.args[1]
           policy == libCall.args[2]
       IN IF value01 \in SliderBoundaries
            THEN /\ policy \in {"roundDown", "roundNearest"}
                      => LibValue = StateBelow(value01)
                 /\ policy \in {"roundUp", "roundNearestTiesUp"}
                      => LibValue = StateBelow(value01) + 1
            ELSE /\ LibValue \in 0..5
                 /\ \A other \in SliderBoundaryPolicies :
                      discretizeSlider(value01, other) = LibValue

\* 0.75 under roundNearestTiesUp: the tie goes to state 4
C22_Witness ==
  /\ SliderReturned
  /\ libCall.args[1] = (3 * SliderOne) \div 4
  /\ libCall.args[2] = "roundNearestTiesUp"
  /\ LibValue = 4

(***************************************************************************)
(* Properties of the per-clock processing of an event (Spec)               *)
(***************************************************************************)
\* what one pass of the two clock loops of ingestCommittedEvent writes for
\* clock k: the holding-time additions of that clock's split of the
\* interval and, for a user event, that clock's transition cell
ClockWrites(e, rt, clockConfig, N, k) ==
  LET run == splitRun(rt.lastCommittedAtMs, e.tsMs, ALL_CLOCKS[k],
                      clockConfig)
      bucketId == mapTimestampToBucket(ALL_CLOCKS[k], e.tsMs, clockConfig)
      counted == e.initiator = "user" /\ bucketId # Undefined
      index == transIndex(e.fromDiscreteState, e.toDiscreteState,
                          getClockIndex(ALL_CLOCKS[k]), bucketId, N)
  IN [holding |-> IF run.diverges THEN EmptyMap
                  ELSE holdingAdds(rt.lastCommittedDiscreteState,
                                   ALL_CLOCKS[k], run.result),
      thrown |-> counted /\ index = Thrown,
      transition |-> IF counted /\ index # Thrown THEN index :> 1
                     ELSE EmptyMap]

\* every order in which the five clocks can be taken
ClockOrders ==
  {order \in [1..Len(ALL_CLOCKS) -> 1..Len(ALL_CLOCKS)] :
     \A j, k \in 1..Len(ALL_CLOCKS) : order[j] = order[k] => j = k}

\* the array after the clocks have written in the given order
RECURSIVE WrittenInOrder(_, _, _, _)
WrittenInOrder(data, order, j, writes) ==
  IF j > Len(ALL_CLOCKS) THEN data
  ELSE WrittenInOrder(
         ArrAddAll(ArrAddAll(data, writes[order[j]].holding),
                   writes[order[j]].transition),
         order, j + 1, writes)

SameArray(a, b) ==
  /\ a.length = b.length
  /\ \A i \in (DOMAIN a.nz) \cup (DOMAIN b.nz) : ArrGet(a, i) = ArrGet(b, i)

ClocksIndependent(e, rt, clockConfig, N) ==
  LET key == EventKey(e)
      writes == <<ClockWrites(e, rt, clockConfig, N, 1),
                  ClockWrites(e, rt, clockConfig, N, 2),
                  ClockWrites(e, rt, clockConfig, N, 3),
                  ClockWrites(e, rt, clockConfig, N, 4),
                  ClockWrites(e, rt, clockConfig, N, 5)>>
      loaded == loadOrCreateBlob(analyticsBlobs, analyticsBlobChunks, key, N,
                                 e.tsMs).data
      stored == StoredArray(analyticsBlobChunks', key)
  IN /\ \A k \in 1..Len(ALL_CLOCKS) :
          \A i \in (DOMAIN writes[k].holding)
                     \cup (DOMAIN writes[k].transition) :
            /\ ClockOfCell(i) = k - 1
            /\ i < getArraySize(N)
     /\ \A order \in ClockOrders :
          SameArray(IF \E k \in 1..Len(ALL_CLOCKS) : writes[k].thrown
                      THEN loaded
                      ELSE WrittenInOrder(loaded, order, 1, writes),
                    stored)

\* C23: for one committed event the cells written for clock c all lie in
\* clock c's 2016-slot blocks and come from clock c's mapping alone, and
\* taking the five clocks in any order leaves the stored array that the
\* canonical order leaves.
C23_ClockOrderIrrelevant ==
  [][(CommitStep /\ config # {} /\ PassesIntegrity(NewEvent, PrevRuntime))
       => ClocksIndependent(NewEvent, PrevRuntime, ClockConfigNow,
                            NumStatesOf(NewEvent))]_vars

\* a user event stored with holding time and a transition count in the
\* blocks of four clocks
C23_Witness ==
  /\ Len(committedChangeEvents) = 1
  /\ config # {}
  /\ LET e == committedChangeEvents[1]
         stored == StoredArray(analyticsBlobChunks, EventKey(e))
     IN /\ e.initiator = "user"
        /\ \A c \in 0..3 :
             /\ \E i \in DOMAIN stored.nz :
                  IsHoldingCell(i, NumStatesOf(e)) /\ ClockOfCell(i) = c
             /\ \E i \in DOMAIN stored.nz :
                  ~IsHoldingCell(i, NumStatesOf(e)) /\ ClockOfCell(i) = c

(***************************************************************************)
(* Properties of the analytics windows (Spec)                              *)
(***************************************************************************)
\* C24: the analytics of each committed event are stored under the windowId
\* of the UTC calendar quarter of its commit instant, "YYYY-Q{1-4}": every
\* stored chunk row belongs to the quarter window of a committed event of
\* its control and model.
C24_StoredUnderQuarterWindow ==
  \A row \in analyticsBlobChunks :
    \E k \in 1..Len(committedChangeEvents) :
      /\ committedChangeEvents[k].controlId = row.controlId
      /\ committedChangeEvents[k].activeModelId = row.modelId
      /\ row.windowId
           = getQuarterWindowIdFromTimestamp(committedChangeEvents[k].tsMs)

(***************************************************************************)
(* The mutations with two controls and two automation models: radiobutton  *)
(* controls under one configuration, each created under the first model,   *)
(* moved to the second and set by the user.                                *)
(***************************************************************************)
FrameControlIds == {"c1", "c2"}
FrameMaxEvents == MaxTicks + 1

FrameSetConfig ==
  setConfig([location |-> EndingConfig, sliderBoundaryPolicy |-> NoPolicy])

FrameCreateControl ==
  \E c \in FrameControlIds :
    createControl([controlId |-> c, definition |-> RadiobuttonDefinition,
                   activeModelId |-> "m1"])

FrameSetActiveModel ==
  \E c \in FrameControlIds :
    setActiveModel([controlId |-> c, activeModelId |-> "m2"])

FrameSetControlValue ==
  \E c \in FrameControlIds, s \in 0..1 :
    /\ Len(committedChangeEvents) < FrameMaxEvents
    /\ setControlValue([controlId |-> c, initiator |-> "user",
                        isCommitted |-> TRUE, kind |-> "radiobutton",
                        newState |-> s])

FrameNext ==
  FrameSetConfig \/ FrameCreateControl \/ FrameSetActiveModel
    \/ FrameSetControlValue \/ AdvanceClock

FrameSpec == Init /\ [][FrameNext]_vars

(***************************************************************************)
(* Properties of the attribution of an event (FrameSpec)                   *)
(***************************************************************************)
\* the rows of a table that the step inserts, deletes or replaces
RowsChanged(before, after) == (before \ after) \cup (after \ before)

\* C25: the holding time and the transition of one committed event go to
\* the array of the event's controlId and of the activeModelId the control
\* has when the event is committed; the stored rows of every other control
\* and every other model are left as they are, and a step that commits
\* nothing changes no array.
C25_OnlyEventArrayChanges ==
  [][IF CommitStep
       THEN /\ NewEvent.activeModelId
                 = controlRuntime[NewEvent.controlId].activeModelId
            /\ \A r \in RowsChanged(analyticsBlobChunks, analyticsBlobChunks')
                          \cup RowsChanged(analyticsBlobs, analyticsBlobs') :
                 /\ r.controlId = NewEvent.controlId
                 /\ r.modelId = NewEvent.activeModelId
       ELSE UNCHANGED <<analyticsBlobs, analyticsBlobChunks>>]_vars

\* three events have filled three arrays: two controls under the first
\* model, and the first control again after it moved to the second model
C25_Witness ==
  /\ Len(committedChangeEvents) = 3
  /\ KeysIn(analyticsBlobChunks)
       = {BlobKey("c1", "m1", "default"), BlobKey("c2", "m1", "default"),
          BlobKey("c1", "m2", "default")}
  /\ \A key \in KeysIn(analyticsBlobChunks) :
       StoredArray(analyticsBlobChunks, key).nz # EmptyMap
  /\ committedChangeEvents[3].controlId = "c1"
  /\ committedChangeEvents[3].activeModelId = "m2"

(***************************************************************************)
(* Properties of the interval guard of splitHoldInterval (SplitSpec)       *)
(***************************************************************************)
\* C26: whenever t0Ms >= t1Ms, for every clock and configuration,
\* splitHoldInterval returns the empty map: it leaves by its first test,
\* before the loop and before any clock mapping, so nothing can be raised.
C26_InvalidIntervalIsEmpty ==
  params.t0Ms >= params.t1Ms
    => /\ splitPc \in {"start", "done"}
       /\ splitResult = EmptyMap
       /\ splitHoldInterval(params.t0Ms, params.t1Ms, params.clockId,
                            params.config) = EmptyMap

\* a reversed interval under the unequal-hours clock at the pole, where the
\* clock has no mapping, has returned
C26_Witness ==
  /\ splitPc = "done"
  /\ params.t0Ms > params.t1Ms
  /\ params.clockId = "unequalHours"
  /\ params.config = PoleConfig
  /\ splitResult = EmptyMap

(***************************************************************************)
(* Properties of the holding time of a control's history (Spec)            *)
(***************************************************************************)
\* the UTC holding-time cells of an array, summed over states and buckets
UtcHoldingOf(data, N) ==
  LET cells == {i \in DOMAIN data.nz :
                  IsHoldingCell(i, N) /\ ClockOfCell(i) = 0}
  IN SumOver([i \in cells |-> data.nz[i]], cells)

\* the same, summed over the arrays of all models of control c
UtcHoldingTotal(chunkRows, c) ==
  LET keys == {key \in KeysIn(chunkRows) : key.controlId = c}
  IN SumOver([key \in keys |->
                UtcHoldingOf(StoredArray(chunkRows, key),
                             getNumStates(controls[c]))],
              keys)

\* C27: holding time is conserved over a control's history: with a config
\* present, each commit adds to the UTC holding-time cells of the control,
\* summed over all states, buckets and models, exactly the time since the
\* previous commit (or the creation), so that the sum equals
\* lastCommittedAtMs minus the creation instant, whatever the initiator and
\* the new state of the commit.
C27_HoldingTimeConserved ==
  [][(CommitStep /\ config # {})
       => UtcHoldingTotal(analyticsBlobChunks', NewEvent.controlId)
            - UtcHoldingTotal(analyticsBlobChunks, NewEvent.controlId)
          = controlRuntime'[NewEvent.controlId].lastCommittedAtMs
              - PrevRuntime.lastCommittedAtMs]_vars

(***************************************************************************)
(* Properties of the discrete states (Spec)                                *)
(***************************************************************************)
LegalState(c, state) == state \in 0..(getNumStates(controls[c]) - 1)

StatesLegal ==
  /\ \A c \in DOMAIN controlRuntime :
       /\ LegalState(c, controlRuntime[c].currentDiscreteState)
       /\ LegalState(c, controlRuntime[c].lastCommittedDiscreteState)
  /\ \A k \in 1..Len(committedChangeEvents) :
       /\ LegalState(committedChangeEvents[k].controlId,
                     committedChangeEvents[k].fromDiscreteState)
       /\ LegalState(committedChangeEvents[k].controlId,
                     committedChangeEvents[k].toDiscreteState)

\* the request carries a state or a value outside the legal range of its
\* control
OutOfRange(payload) ==
  /\ payload.controlId \in DOMAIN controls
  /\ payload.kind = controls[payload.controlId].kind
  /\ IF payload.kind = "radiobutton"
       THEN ~LegalState(payload.controlId, payload.newState)
       ELSE payload.newValue01 < 0 \/ payload.newValue01 > SliderOne

\* C28: after any sequence of mutations the current and the last committed
\* discrete state of every control, and the from and to states of every
\* logged event, are integers in [0, N-1] (N = numStates of a radiobutton,
\* 6 for a slider); a setControlValue call with a state or value outside
\* the legal range is rejected and changes nothing.
C28_StatesStayLegal ==
  /\ []StatesLegal
  /\ [][\A payload \in SetControlValueRequests :
          (OutOfRange(payload) /\ setControlValue(payload))
            => UNCHANGED vars]_vars

\* a radiobutton with two states committed to its last state, and logged
C28_Witness ==
  /\ "c1" \in DOMAIN controlRuntime
  /\ controls["c1"].kind = "radiobutton"
  /\ controlRuntime["c1"].lastCommittedDiscreteState
       = getNumStates(controls["c1"]) - 1
  /\ Len(committedChangeEvents) = 2
  /\ committedChangeEvents[1].toDiscreteState = 1
  /\ committedChangeEvents[2].fromDiscreteState = 1

(***************************************************************************)
(* Properties of the committed-event log (Spec)                            *)
(***************************************************************************)
\* the positions in the log of the events of control c before position k
EarlierEventsOf(c, k) ==
  {j \in 1..(k - 1) : committedChangeEvents[j].controlId = c}

\* C29: for each control the committed-event log forms a chain: the
\* fromDiscreteState of every event equals the toDiscreteState of the
\* previous committed event of that control, or the initial state 0 for
\* its first event, in whatever order the calls for the control are served.
C29_EventsFormChain ==
  \A k \in 1..Len(committedChangeEvents) :
    LET e == committedChangeEvents[k]
        earlier == EarlierEventsOf(e.controlId, k)
    IN e.fromDiscreteState
         = IF earlier = {} THEN 0
           ELSE committedChangeEvents[
                  CHOOSE j \in earlier : \A i \in earlier : i <= j
                ].toDiscreteState

\* a slider committed at 0.25 and then at 0, with an uncommitted drag to
\* 0.25 as its current value: the second event starts where the first ended
C29_Witness ==
  /\ Len(committedChangeEvents) = 2
  /\ controls["c1"].kind = "slider"
  /\ committedChangeEvents[1].fromDiscreteState = 0
  /\ committedChangeEvents[1].toDiscreteState = 1
  /\ committedChangeEvents[2].fromDiscreteState = 1
  /\ committedChangeEvents[2].toDiscreteState = 0
  /\ controlRuntime["c1"].currentDiscreteState = 1
  /\ controlRuntime["c1"].lastCommittedDiscreteState = 0

(***************************************************************************)
(* Calls of saveChunks and loadChunks on the arrays of one (control,       *)
(* model, window).  An array has the length of a control with N states and *)
(* holds values at some of its first and last cells and of the cells on    *)
(* either side of the first chunk boundary, each value naming its cell.    *)
(***************************************************************************)
ChunkKey == BlobKey("c1", "m1", "default")

ChunkNumStates == {2, 5}

MarkedCells(N) ==
  {i \in {0, CHUNK_SIZE - 1, CHUNK_SIZE, getArraySize(N) - 1} :
     i < getArraySize(N)}

\* the value that marks cell i
MarkOf(i) == 1 + (i % 7)

ChunkArrays(N) ==
  {[length |-> getArraySize(N), nz |-> [i \in cells |-> MarkOf(i)]] :
     cells \in SUBSET MarkedCells(N)}

SaveChunks ==
  /\ \E N \in ChunkNumStates : \E data \in ChunkArrays(N) :
       /\ analyticsBlobChunks'
            = saveChunks(analyticsBlobChunks, ChunkKey, splitIntoChunks(data),
                         now)
       /\ libCall' = [fn |-> "saveChunks", args |-> <<ChunkKey, data>>]
  /\ libResult' = <<>>
  /\ UNCHANGED <<splitVars, now, config, controls, controlRuntime,
                 committedChangeEvents, analyticsBlobs>>

\* loadChunks, then assembleFromChunks where chunks were found
LoadChunks ==
  /\ libCall.fn = "saveChunks"
  /\ libResult = <<>>
  /\ \E loaded \in {loadChunks(analyticsBlobChunks, libCall.args[1])} :
       libResult' = <<[found |-> loaded.found,
                       data |-> assembleFromChunks(loaded.chunks)]>>
  /\ UNCHANGED <<libCall, splitVars, dashVars>>

ChunkNext == SaveChunks \/ LoadChunks \/ AdvanceClock

ChunkSpec == Init /\ [][ChunkNext]_vars

(***************************************************************************)
(* Properties of the chunked storage (ChunkSpec)                           *)
(***************************************************************************)
\* C30: after saveChunks completes for a (control, model, window) the only
\* chunks stored under that key are those of the new batch, one per chunk
\* index, and loadChunks followed by assembleFromChunks returns exactly the
\* array that was saved, with the same length and the same values in the
\* same places: a load never mixes chunks of two batches.
C30_LoadReturnsLastSave ==
  libCall.fn = "saveChunks"
    => LET key == libCall.args[1]
           data == libCall.args[2]
           rows == rowsOf(analyticsBlobChunks, key)
           count == Len(splitIntoChunks(data))
       IN /\ \A r1, r2 \in rows : r1.batchId = r2.batchId
          /\ {r.chunkIndex : r \in rows} = 0..(count - 1)
          /\ Cardinality(rows) = count
          /\ LibReturned
               => /\ LibValue.found
                  /\ LibValue.data.length = data.length
                  /\ SameArray(LibValue.data, data)

\* a three-chunk array saved over an earlier save in the same millisecond
\* and loaded back with its values on both sides of the chunk boundary
C30_Witness ==
  /\ libCall.fn = "saveChunks"
  /\ LibReturned
  /\ LibValue.found
  /\ LibValue.data.length = getArraySize(5)
  /\ ArrGet(LibValue.data, CHUNK_SIZE - 1) = MarkOf(CHUNK_SIZE - 1)
  /\ ArrGet(LibValue.data, CHUNK_SIZE) = MarkOf(CHUNK_SIZE)
  /\ ArrGet(LibValue.data, 0) = 0
  /\ \A r \in rowsOf(analyticsBlobChunks, ChunkKey) : r.batchId.suffix = 1

====
